---- MODULE Spec2Model ----
\* Verification model of terraform-provider-redpanda:
\*   - utils.AreWeDoneYet, the operation poller, and the Network resource
\*     handlers that call it (specification Spec);
\*   - the cluster model <-> wire conversions of resources/cluster/cluster.go
\*     (specification SpecCluster).
EXTENDS Integers, Sequences, FiniteSets, TLC

VARIABLES
    handler,    \* entry point being run: "AreWeDoneYet", or "Create", "Read",
                \* "Update", "Delete" of the Network resource
    pc,         \* position of the running entry point
    plan,       \* models.Network of the request (plan for Create, state for Delete)
    op,         \* *Operation handed to AreWeDoneYet
    metadata,   \* CreateNetworkMetadata decoded from op.Metadata
    o,          \* *Operation returned by the latest GetOperation (NoOp = nil)
    fetchErr,   \* err returned by the latest GetOperation
    netErr,     \* error returned by the latest NetworkServiceClient call
    nw,         \* *cloudv1beta1.Network returned by GetNetwork
    timeout,    \* timeout argument of AreWeDoneYet, in ticks
    now,        \* wall clock, in ticks
    startTime,  \* startTime of AreWeDoneYet
    ctxDone,    \* the context handed to the entry point has been cancelled
    trace,      \* calls made by AreWeDoneYet: GetOperation and time.Sleep
    ret,        \* error returned by AreWeDoneYet
    netCalls,   \* calls made on the NetworkServiceClient
    diags,      \* response.Diagnostics errors
    tfState,    \* response.State
    fn,         \* cluster conversion that produced out
    cfg,        \* models.Cluster input of the conversion
    cluster,    \* controlplanev1beta2.Cluster input of generateModel
    out         \* result of the conversion

vars == <<handler, pc, plan, op, metadata, o, fetchErr, netErr, nw, timeout, now, startTime, ctxDone,
          trace, ret, netCalls, diags, tfState, fn, cfg, cluster, out>>

pollerVars == <<handler, pc, plan, op, metadata, o, fetchErr, netErr, nw, timeout, now, startTime,
                ctxDone, trace, ret, netCalls, diags, tfState>>

clusterVars == <<fn, cfg, cluster, out>>

\* ------------------------------------------------------------------------
\* Bounds
\* ------------------------------------------------------------------------

\* longest time, in ticks, one GetOperation call takes
MaxLatency == 2

\* largest timeout, in ticks, handed to AreWeDoneYet directly
MaxTimeout == 3

\* longest slice of topic configurations and of synonyms
MaxSlice == 2

\* the 15*time.Minute the Network handlers hand to AreWeDoneYet, scaled down
\* to a few polling intervals
NetworkTimeout == 3

\* ------------------------------------------------------------------------
\* Strings are sequences of characters, so that strings.Contains,
\* strings.Trim and fmt.Errorf are computed and not assumed.
\* ------------------------------------------------------------------------

Quote == "\""

RECURSIVE TrimLeft(_)
TrimLeft(s) == IF s # <<>> /\ Head(s) = Quote THEN TrimLeft(Tail(s)) ELSE s

RECURSIVE TrimRight(_)
TrimRight(s) ==
    IF s # <<>> /\ s[Len(s)] = Quote THEN TrimRight(SubSeq(s, 1, Len(s) - 1)) ELSE s

\* strings.Trim(s, "\"")
Trim(s) == TrimRight(TrimLeft(s))

\* strings.Contains(s, sub)
Contains(s, sub) ==
    \E i \in 0..(Len(s) - Len(sub)) : SubSeq(s, i + 1, i + Len(sub)) = sub

StrNotFoundLower == <<"n", "o", "t", " ", "f", "o", "u", "n", "d">>
StrNotFoundCamel == <<"N", "o", "t", "F", "o", "u", "n", "d">>
Str404 == <<"4", "0", "4">>

\* messages the backend is taken to produce
MsgBoom == <<"b", "o", "o", "m">>
MsgNotFound == <<"o", "p", " ">> \o StrNotFoundLower
MsgTitleNotFound == <<"N", "o", "t", " ", "F", "o", "u", "n", "d">>
MsgCanceled == <<"c", "o", "n", "t", "e", "x", "t", " ", "c", "a", "n", "c", "e", "l", "e", "d">>
Msgs == {MsgBoom, MsgNotFound, MsgTitleNotFound}

\* a Go error: nil, or a value with a message
NilErr == [isNil |-> TRUE, msg |-> <<>>]
Err(m) == [isNil |-> FALSE, msg |-> m]

\* IsNotFound without the "NotFound" of the gRPC status codes
IsNotFound_LowerOnly(err) ==
    \/ Contains(err.msg, StrNotFoundLower)
    \/ Contains(err.msg, Str404)

IsNotFound(err) ==
    \/ Contains(err.msg, StrNotFoundLower)
    \/ Contains(err.msg, StrNotFoundCamel)
    \/ Contains(err.msg, Str404)

\* fmt.Errorf("operation failed: %s", m)
OperationFailed(m) ==
    Err(<<"o", "p", "e", "r", "a", "t", "i", "o", "n", " ",
          "f", "a", "i", "l", "e", "d", ":", " ">> \o m)

\* fmt.Errorf("timeout reached")
TimeoutReached ==
    Err(<<"t", "i", "m", "e", "o", "u", "t", " ", "r", "e", "a", "c", "h", "e", "d">>)

\* ------------------------------------------------------------------------
\* Operations
\* ------------------------------------------------------------------------

OpIds == {"op1", "op2"}
OpStates == {"STATE_UNSPECIFIED", "STATE_IN_PROGRESS", "STATE_COMPLETED", "STATE_FAILED"}

\* a nil *Operation: the getters return zero values
NoOp == [id |-> "", state |-> "STATE_UNSPECIFIED", error |-> NilErr]

OpErrors == {NilErr} \cup {Err(m) : m \in Msgs}

\* the operations the backend hands out: a finished one carries any error
\* payload or none, an unfinished one none or MsgBoom
Ops ==
    {x \in [id : OpIds, state : OpStates, error : OpErrors] :
        \/ x.state \in {"STATE_COMPLETED", "STATE_FAILED"}
        \/ x.error = NilErr
        \/ x.state = "STATE_IN_PROGRESS" /\ x.error = Err(MsgBoom)}

CheckOpsState_OnlyCompleted(x) == x.state = "STATE_COMPLETED"

CheckOpsState(x) == x.state \in {"STATE_COMPLETED", "STATE_FAILED"}

\* time.Sleep(10 * time.Second): the polling interval, in ticks
SleepInterval == 1

\* outcome of a stretch of AreWeDoneYet: return err, or go on polling
Return(e) == [kind |-> "return", err |-> e]
Continue == [kind |-> "continue", err |-> NilErr]

AreWeDoneYetEntry_NotFound(x) ==
    IF CheckOpsState(x)
    THEN IF x.error # NilErr /\ ~IsNotFound(x.error)
         THEN Return(OperationFailed(x.error.msg))
         ELSE Return(NilErr)
    ELSE Continue

\* AreWeDoneYet before the loop
AreWeDoneYetEntry(x) ==
    IF CheckOpsState(x)
    THEN IF x.error # NilErr
         THEN Return(OperationFailed(x.error.msg))
         ELSE Return(NilErr)
    ELSE Continue

AreWeDoneYetIter_Retry(x, err, elapsed, t) ==
    IF err # NilErr
    THEN Continue
    ELSE IF CheckOpsState(x)
         THEN IF x.error # NilErr
              THEN IF ~IsNotFound(x.error)
                   THEN Return(NilErr)
                   ELSE Return(OperationFailed(x.error.msg))
              ELSE Return(NilErr)
         ELSE IF elapsed > t THEN Return(TimeoutReached) ELSE Continue

AreWeDoneYetIter_TimeoutFirst(x, err, elapsed, t) ==
    IF err # NilErr
    THEN Return(err)
    ELSE IF elapsed > t
         THEN Return(TimeoutReached)
         ELSE IF CheckOpsState(x)
              THEN IF x.error # NilErr
                   THEN IF ~IsNotFound(x.error)
                        THEN Return(NilErr)
                        ELSE Return(OperationFailed(x.error.msg))
                   ELSE Return(NilErr)
              ELSE Continue

AreWeDoneYetIter_AtLeast(x, err, elapsed, t) ==
    IF err # NilErr
    THEN Return(err)
    ELSE IF CheckOpsState(x)
         THEN IF x.error # NilErr
              THEN IF ~IsNotFound(x.error)
                   THEN Return(NilErr)
                   ELSE Return(OperationFailed(x.error.msg))
              ELSE Return(NilErr)
         ELSE IF elapsed >= t THEN Return(TimeoutReached) ELSE Continue

\* AreWeDoneYetIter that takes a failed operation without error payload for
\* a failure
AreWeDoneYetIter_FailedIsError(x, err, elapsed, t) ==
    IF err # NilErr
    THEN Return(err)
    ELSE IF CheckOpsState(x)
         THEN IF x.error # NilErr
              THEN IF ~IsNotFound(x.error)
                   THEN Return(NilErr)
                   ELSE Return(OperationFailed(x.error.msg))
              ELSE IF x.state = "STATE_FAILED"
                   THEN Return(OperationFailed(<<>>))
                   ELSE Return(NilErr)
         ELSE IF elapsed > t THEN Return(TimeoutReached) ELSE Continue

\* AreWeDoneYetIter that returns nil when the timeout is reached
AreWeDoneYetIter_TimeoutNil(x, err, elapsed, t) ==
    IF err # NilErr
    THEN Return(err)
    ELSE IF CheckOpsState(x)
         THEN IF x.error # NilErr
              THEN IF ~IsNotFound(x.error)
                   THEN Return(NilErr)
                   ELSE Return(OperationFailed(x.error.msg))
              ELSE Return(NilErr)
         ELSE IF elapsed > t THEN Return(NilErr) ELSE Continue

\* AreWeDoneYetIter that gives the operation two more intervals
AreWeDoneYetIter_Late(x, err, elapsed, t) ==
    IF err # NilErr
    THEN Return(err)
    ELSE IF CheckOpsState(x)
         THEN IF x.error # NilErr
              THEN IF ~IsNotFound(x.error)
                   THEN Return(NilErr)
                   ELSE Return(OperationFailed(x.error.msg))
              ELSE Return(NilErr)
         ELSE IF elapsed > t + 2 * SleepInterval THEN Return(TimeoutReached) ELSE Continue

\* one iteration of the loop of AreWeDoneYet, after GetOperation returned
\* (x, err), elapsed being time.Since(startTime)
AreWeDoneYetIter(x, err, elapsed, t) ==
    IF err # NilErr
    THEN Return(err)
    ELSE IF CheckOpsState(x)
         THEN IF x.error # NilErr
              THEN IF ~IsNotFound(x.error)
                   THEN Return(NilErr)
                   ELSE Return(OperationFailed(x.error.msg))
              ELSE Return(NilErr)
         ELSE IF elapsed > t THEN Return(TimeoutReached) ELSE Continue

GetOperationRequest_Latest(handle, latest) == latest.id

\* the GetOperationRequest of an iteration
GetOperationRequest(handle, latest) == handle.id

\* length of the sleep that follows the n-th sleep
NextSleep(n) == SleepInterval

\* the calls of AreWeDoneYet, as recorded in trace
GetOperationCall(id, cancelled) ==
    [e |-> "GetOperation", id |-> id, d |-> 0, cancelled |-> cancelled]
SleepCall(d, cancelled) ==
    [e |-> "Sleep", id |-> "", d |-> d, cancelled |-> cancelled]

Fetches(tr) == {i \in DOMAIN tr : tr[i].e = "GetOperation"}
Sleeps(tr) == {i \in DOMAIN tr : tr[i].e = "Sleep"}

\* what a client call answers: an error once the context is cancelled,
\* otherwise an error or a reply
ClientErrors(cancelled) ==
    {Err(m) : m \in Msgs} \cup (IF cancelled THEN {Err(MsgCanceled)} ELSE {})

\* ------------------------------------------------------------------------
\* The Network resource
\* ------------------------------------------------------------------------

\* types.String: null, or a value
NullStr == [null |-> TRUE, value |-> <<>>]
StringValue(s) == [null |-> FALSE, value |-> s]
ValueString(x) == IF x.null THEN <<>> ELSE x.value

Uppers ==
    <<"A", "B", "C", "D", "E", "F", "G", "H", "I", "J", "K", "L", "M",
      "N", "O", "P", "Q", "R", "S", "T", "U", "V", "W", "X", "Y", "Z">>
Lowers ==
    <<"a", "b", "c", "d", "e", "f", "g", "h", "i", "j", "k", "l", "m",
      "n", "o", "p", "q", "r", "s", "t", "u", "v", "w", "x", "y", "z">>

LowerChar(c) ==
    IF \E i \in DOMAIN Uppers : Uppers[i] = c
    THEN Lowers[CHOOSE i \in DOMAIN Uppers : Uppers[i] = c]
    ELSE c

UpperChar(c) ==
    IF \E i \in DOMAIN Lowers : Lowers[i] = c
    THEN Uppers[CHOOSE i \in DOMAIN Lowers : Lowers[i] = c]
    ELSE c

\* strings.ToUpper
ToUpper(s) == [i \in DOMAIN s |-> UpperChar(s[i])]

\* strings.ToLower
ToLower(s) == [i \in DOMAIN s |-> LowerChar(s[i])]

\* StringToCloudProvider
StringToCloudProvider(p) ==
    CASE ToLower(p) = <<"a", "w", "s">> -> "CLOUD_PROVIDER_AWS"
      [] ToLower(p) = <<"g", "c", "p">> -> "CLOUD_PROVIDER_GCP"
      [] OTHER -> "CLOUD_PROVIDER_UNSPECIFIED"

\* StringToClusterType
StringToClusterType(p) ==
    CASE ToLower(p) = <<"d", "e", "d", "i", "c", "a", "t", "e", "d">> -> "TYPE_DEDICATED"
      [] ToLower(p) = <<"c", "l", "o", "u", "d">> -> "TYPE_BYOC"
      [] OTHER -> "TYPE_UNSPECIFIED"

\* TrimmedStringValue
TrimmedStringValue(s) == StringValue(Trim(s))

StrNet1 == <<"n", "e", "t", "1">>
StrCidr == <<"1", "0", ".", "0", ".", "0", ".", "0", "/", "2", "0">>
StrRegion == <<"u", "s">>
StrNs == <<"n", "s">>
StrAws == <<"a", "w", "s">>
StrGcp == <<"g", "c", "p">>
StrDedicated == <<"d", "e", "d", "i", "c", "a", "t", "e", "d">>
StrId1 == <<"i", "d", "1">>
StrId1Quoted == <<Quote>> \o StrId1 \o <<Quote>>

\* models.Network values a plan can hold (ID is computed: null in a plan)
Plans ==
    {[Name |-> StringValue(StrNet1), ID |-> NullStr,
      CidrBlock |-> StringValue(StrCidr), Region |-> r[1],
      NamespaceID |-> StringValue(StrNs),
      ClusterType |-> StringValue(StrDedicated), CloudProvider |-> r[2]] :
        r \in {<<NullStr, StringValue(StrAws)>>,
               <<StringValue(StrRegion), StringValue(StrGcp)>>}}

\* models.Network values held in state
States == {[p EXCEPT !.ID = StringValue(StrId1)] : p \in Plans}

EmptyNetwork ==
    [Name |-> NullStr, ID |-> NullStr, CidrBlock |-> NullStr, Region |-> NullStr,
     NamespaceID |-> NullStr, ClusterType |-> NullStr, CloudProvider |-> NullStr]

\* response.State: nothing written, or a models.Network
NoState == [present |-> FALSE, value |-> EmptyNetwork]
StateOf(m) == [present |-> TRUE, value |-> m]

\* CreateNetworkMetadata decoded from op.Metadata: UnmarshalTo fails, or
\* gives the network id
NoMetadata == [ok |-> FALSE, NetworkId |-> <<>>]
Metadatas == {NoMetadata} \cup [ok : {TRUE}, NetworkId : {StrId1, StrId1Quoted}]

\* the cloudv1beta1.Network of the CreateNetworkRequest
CreateNetworkRequest(model) ==
    [Name |-> ValueString(model.Name),
     CidrBlock |-> ValueString(model.CidrBlock),
     Region |-> ValueString(model.Region),
     CloudProvider |-> StringToCloudProvider(ValueString(model.CloudProvider)),
     NamespaceId |-> ValueString(model.NamespaceID),
     ClusterType |-> StringToClusterType(ValueString(model.ClusterType))]

\* the models.Network that Create writes to the state
CreateState(model, md) ==
    [Name |-> model.Name,
     ID |-> TrimmedStringValue(md.NetworkId),
     CidrBlock |-> model.CidrBlock,
     Region |-> model.Region,
     NamespaceID |-> model.NamespaceID,
     ClusterType |-> model.ClusterType,
     CloudProvider |-> model.CloudProvider]

NetCall(rpc) == [rpc |-> rpc]
Diag(summary, err) == [summary |-> summary, detail |-> err.msg]

Pending == [done |-> FALSE, err |-> NilErr]
Returned(e) == [done |-> TRUE, err |-> e]

\* where control goes when AreWeDoneYet returns
AfterAwait == IF handler = "AreWeDoneYet" THEN "done" ELSE "returned"

MsgUnmarshal == <<"m", "i", "s", "m", "a", "t", "c", "h">>

\* ------------------------------------------------------------------------
\* AreWeDoneYet
\* ------------------------------------------------------------------------

\* AreWeDoneYet is entered with op: the check made before the loop
AwaitEntry ==
    /\ pc = "await"
    /\ LET r == AreWeDoneYetEntry(op) IN
         IF r.kind = "return"
         THEN /\ ret' = Returned(r.err)
              /\ pc' = AfterAwait
              /\ UNCHANGED startTime
         ELSE /\ startTime' = now
              /\ pc' = "fetch"
              /\ UNCHANGED ret
    /\ UNCHANGED <<handler, nw, plan, op, metadata, o, fetchErr, netErr, timeout, now,
                   ctxDone, trace, netCalls, diags, tfState>>
    /\ UNCHANGED clusterVars

\* one iteration of the loop up to its return or its time.Sleep: the
\* GetOperation call, which takes lat ticks and answers (x, err), and the
\* checks made on the answer
Poll ==
    /\ pc = "fetch"
    /\ \E lat \in 0..MaxLatency :
       \E reply \in [o : {NoOp}, err : ClientErrors(ctxDone)]
                    \cup [o : {x \in Ops : x.id = op.id}, err : {NilErr}] :
         LET r == AreWeDoneYetIter(reply.o, reply.err, (now + lat) - startTime, timeout) IN
           /\ now' = now + lat
           /\ o' = reply.o
           /\ fetchErr' = reply.err
           /\ trace' = Append(trace, GetOperationCall(GetOperationRequest(op, o), ctxDone))
           /\ IF r.kind = "return"
              THEN /\ ret' = Returned(r.err)
                   /\ pc' = AfterAwait
              ELSE /\ pc' = "sleep"
                   /\ UNCHANGED ret
    /\ UNCHANGED <<handler, nw, plan, op, metadata, netErr, timeout, startTime,
                   ctxDone, netCalls, diags, tfState>>
    /\ UNCHANGED clusterVars

\* time.Sleep(10 * time.Second) at the end of an iteration
Sleep ==
    /\ pc = "sleep"
    /\ LET d == NextSleep(Cardinality(Sleeps(trace))) IN
         /\ now' = now + d
         /\ trace' = Append(trace, SleepCall(d, ctxDone))
    /\ pc' = "fetch"
    /\ UNCHANGED <<handler, nw, plan, op, metadata, o, fetchErr, netErr, timeout,
                   startTime, ctxDone, ret, netCalls, diags, tfState>>
    /\ UNCHANGED clusterVars

\* the caller cancels the context while the entry point runs
Cancel ==
    /\ pc \notin {"done", "idle"}
    /\ ~ctxDone
    /\ ctxDone' = TRUE
    /\ UNCHANGED <<handler, nw, pc, plan, op, metadata, o, fetchErr, netErr, timeout, now,
                   startTime, trace, ret, netCalls, diags, tfState>>
    /\ UNCHANGED clusterVars

\* ------------------------------------------------------------------------
\* Network.Create and Network.Delete
\* ------------------------------------------------------------------------

\* Network.Create up to its call of AreWeDoneYet: CreateNetwork, then the
\* decoding of the operation's metadata
NetworkCreate ==
    /\ pc = "start"
    /\ handler = "Create"
    /\ netCalls' = Append(netCalls, NetCall("CreateNetwork"))
    /\ \/ \E e \in ClientErrors(ctxDone) :
            /\ netErr' = e
            /\ diags' = Append(diags, Diag("failed to create network", e))
            /\ pc' = "done"
            /\ UNCHANGED <<op, metadata, timeout>>
       \/ \E x \in Ops, md \in Metadatas :
            /\ netErr' = NilErr
            /\ op' = x
            /\ metadata' = md
            /\ IF md.ok
               THEN /\ timeout' = NetworkTimeout
                    /\ pc' = "await"
                    /\ UNCHANGED diags
               ELSE /\ diags' = Append(diags,
                          Diag("failed to unmarshal network metadata", Err(MsgUnmarshal)))
                    /\ pc' = "done"
                    /\ UNCHANGED timeout
    /\ UNCHANGED <<handler, nw, plan, o, fetchErr, now, startTime, ctxDone, trace, ret,
                   tfState>>
    /\ UNCHANGED clusterVars

\* Network.Create setting the state whatever AreWeDoneYet returned
NetworkCreateFinish_AlwaysSet ==
    /\ pc = "returned"
    /\ handler = "Create"
    /\ IF ret.err # NilErr
       THEN diags' = Append(diags, Diag("failed waiting for network creation", ret.err))
       ELSE UNCHANGED diags
    /\ tfState' = StateOf(CreateState(plan, metadata))
    /\ pc' = "done"
    /\ UNCHANGED <<handler, nw, plan, op, metadata, o, fetchErr, netErr, timeout, now,
                   startTime, ctxDone, trace, ret, netCalls>>
    /\ UNCHANGED clusterVars

\* Network.Create after AreWeDoneYet returned
NetworkCreateFinish ==
    /\ pc = "returned"
    /\ handler = "Create"
    /\ IF ret.err # NilErr
       THEN /\ diags' = Append(diags, Diag("failed waiting for network creation", ret.err))
            /\ UNCHANGED tfState
       ELSE /\ tfState' = StateOf(CreateState(plan, metadata))
            /\ UNCHANGED diags
    /\ pc' = "done"
    /\ UNCHANGED <<handler, nw, plan, op, metadata, o, fetchErr, netErr, timeout, now,
                   startTime, ctxDone, trace, ret, netCalls>>
    /\ UNCHANGED clusterVars

\* Network.Delete up to its call of AreWeDoneYet: DeleteNetwork
NetworkDelete ==
    /\ pc = "start"
    /\ handler = "Delete"
    /\ netCalls' = Append(netCalls, NetCall("DeleteNetwork"))
    /\ \/ \E e \in ClientErrors(ctxDone) :
            /\ netErr' = e
            /\ diags' = Append(diags, Diag("failed to delete network", e))
            /\ pc' = "done"
            /\ UNCHANGED <<op, timeout>>
       \/ \E x \in Ops :
            /\ netErr' = NilErr
            /\ op' = x
            /\ timeout' = NetworkTimeout
            /\ pc' = "await"
            /\ UNCHANGED diags
    /\ UNCHANGED <<handler, nw, plan, metadata, o, fetchErr, now, startTime, ctxDone, trace,
                   ret, tfState>>
    /\ UNCHANGED clusterVars

\* Network.Delete after AreWeDoneYet returned
NetworkDeleteFinish ==
    /\ pc = "returned"
    /\ handler = "Delete"
    /\ IF ret.err # NilErr
       THEN diags' = Append(diags, Diag("failed waiting for network deletion", ret.err))
       ELSE UNCHANGED diags
    /\ pc' = "done"
    /\ UNCHANGED <<handler, nw, plan, op, metadata, o, fetchErr, netErr, timeout, now,
                   startTime, ctxDone, trace, ret, netCalls, tfState>>
    /\ UNCHANGED clusterVars

\* ------------------------------------------------------------------------
\* Network.Read and Network.Update
\* ------------------------------------------------------------------------

StrCloud == <<"c", "l", "o", "u", "d">>
providerUnspecified == <<"u", "n", "s", "p", "e", "c", "i", "f", "i", "e", "d">>

CloudProviderToString(provider) ==
    CASE provider = "CLOUD_PROVIDER_AWS" -> StrAws
      [] provider = "CLOUD_PROVIDER_GCP" -> StrGcp
      [] OTHER -> providerUnspecified

\* ClusterTypeToString naming TYPE_BYOC after its constant
ClusterTypeToString_Byoc(provider) ==
    CASE provider = "TYPE_DEDICATED" -> StrDedicated
      [] provider = "TYPE_BYOC" -> <<"b", "y", "o", "c">>
      [] OTHER -> providerUnspecified

ClusterTypeToString(provider) ==
    CASE provider = "TYPE_DEDICATED" -> StrDedicated
      [] provider = "TYPE_BYOC" -> StrCloud
      [] OTHER -> providerUnspecified

\* no *cloudv1beta1.Network
NoNetwork ==
    [nil |-> TRUE, Name |-> <<>>, Id |-> <<>>, CidrBlock |-> <<>>, Region |-> <<>>,
     NamespaceId |-> <<>>, CloudProvider |-> "CLOUD_PROVIDER_UNSPECIFIED",
     ClusterType |-> "TYPE_UNSPECIFIED"]

StrEu == <<"e", "u">>

\* the networks the backend is taken to answer GetNetwork with
Networks ==
    {[nil |-> FALSE, Name |-> StrNet1, Id |-> StrId1, CidrBlock |-> StrCidr,
      Region |-> r, NamespaceId |-> StrNs, CloudProvider |-> cp, ClusterType |-> ct] :
        r \in {StrRegion, StrEu},
        cp \in {"CLOUD_PROVIDER_AWS", "CLOUD_PROVIDER_GCP", "CLOUD_PROVIDER_UNSPECIFIED"},
        ct \in {"TYPE_DEDICATED", "TYPE_BYOC"}}

\* the models.Network that Read sets the state to
ReadState(n) ==
    [Name |-> StringValue(n.Name),
     ID |-> StringValue(n.Id),
     CidrBlock |-> StringValue(n.CidrBlock),
     Region |-> StringValue(n.Region),
     NamespaceID |-> StringValue(n.NamespaceId),
     CloudProvider |-> StringValue(CloudProviderToString(n.CloudProvider)),
     ClusterType |-> StringValue(ClusterTypeToString(n.ClusterType))]

\* AddError(fmt.Sprintf("failed to read network %s", id), err.Error())
ReadDiag(id, err) ==
    [summary |-> "failed to read network %s", arg |-> id, detail |-> err.msg]

\* Network.Read that removes the resource on every error
NetworkRead_RemoveOnError ==
    /\ pc = "start"
    /\ handler = "Read"
    /\ netCalls' = Append(netCalls, NetCall("GetNetwork"))
    /\ \/ \E e \in ClientErrors(ctxDone) :
            /\ netErr' = e
            /\ tfState' = NoState
            /\ UNCHANGED <<nw, diags>>
       \/ \E n \in Networks :
            /\ netErr' = NilErr
            /\ nw' = n
            /\ tfState' = StateOf(ReadState(n))
            /\ UNCHANGED diags
    /\ pc' = "done"
    /\ UNCHANGED <<handler, plan, op, metadata, o, fetchErr, timeout, now, startTime,
                   ctxDone, trace, ret>>
    /\ UNCHANGED clusterVars

\* Network.Read: GetNetwork, then RemoveResource, AddError or State.Set
NetworkRead ==
    /\ pc = "start"
    /\ handler = "Read"
    /\ netCalls' = Append(netCalls, NetCall("GetNetwork"))
    /\ \/ \E e \in ClientErrors(ctxDone) :
            /\ netErr' = e
            /\ IF IsNotFound(e)
               THEN /\ tfState' = NoState
                    /\ UNCHANGED diags
               ELSE /\ diags' = Append(diags, ReadDiag(ValueString(plan.ID), e))
                    /\ UNCHANGED tfState
            /\ UNCHANGED nw
       \/ \E n \in Networks :
            /\ netErr' = NilErr
            /\ nw' = n
            /\ tfState' = StateOf(ReadState(n))
            /\ UNCHANGED diags
    /\ pc' = "done"
    /\ UNCHANGED <<handler, plan, op, metadata, o, fetchErr, timeout, now, startTime,
                   ctxDone, trace, ret>>
    /\ UNCHANGED clusterVars

\* the attributes of ResourceNetworkSchema: set by the configuration or
\* computed, and with the RequiresReplace plan modifier or without
ResourceNetworkSchema ==
    [name |-> [Configurable |-> TRUE, RequiresReplace |-> TRUE],
     cidr_block |-> [Configurable |-> TRUE, RequiresReplace |-> TRUE],
     region |-> [Configurable |-> TRUE, RequiresReplace |-> TRUE],
     cloud_provider |-> [Configurable |-> TRUE, RequiresReplace |-> TRUE],
     namespace_id |-> [Configurable |-> TRUE, RequiresReplace |-> TRUE],
     id |-> [Configurable |-> FALSE, RequiresReplace |-> FALSE],
     cluster_type |-> [Configurable |-> TRUE, RequiresReplace |-> TRUE]]

\* Network.Update that sets the state to the plan
NetworkUpdate_SetsPlan ==
    /\ pc = "start"
    /\ handler = "Update"
    /\ pc' = "done"
    /\ tfState' = StateOf(plan)
    /\ UNCHANGED <<handler, plan, op, metadata, o, fetchErr, netErr, nw, timeout, now,
                   startTime, ctxDone, trace, ret, netCalls, diags>>
    /\ UNCHANGED clusterVars

\* Network.Update: an empty body
NetworkUpdate ==
    /\ pc = "start"
    /\ handler = "Update"
    /\ pc' = "done"
    /\ UNCHANGED <<handler, plan, op, metadata, o, fetchErr, netErr, nw, timeout, now,
                   startTime, ctxDone, trace, ret, netCalls, diags, tfState>>
    /\ UNCHANGED clusterVars

\* ------------------------------------------------------------------------
\* Cluster: the models.Cluster of Terraform and the controlplanev1beta2
\* messages.  The optional blocks, the identifier, the name and the read
\* replicas are modelled; the remaining scalar attributes are copied field
\* by field and take no part in the handling of the blocks.
\* ------------------------------------------------------------------------

\* types.Bool: null, or a value
BoolNull == "null"
BoolValue(b) == IF b THEN "true" ELSE "false"
ValueBool(x) == x = "true"
BoolIsNull(x) == x = "null"

\* types.List of strings, and a Go slice of the model: null (nil), or the
\* elements
ListNull == [null |-> TRUE, elems |-> <<>>]
ListValue(e) == [null |-> FALSE, elems |-> e]

RECURSIVE Escape(_)
Escape(s) ==
    IF s = <<>> THEN <<>>
    ELSE IF Head(s) \in {Quote, "\\"}
         THEN <<"\\", Head(s)>> \o Escape(Tail(s))
         ELSE <<Head(s)>> \o Escape(Tail(s))

\* String() of a types.String value: the value quoted as by %q
GoQuote(s) == <<Quote>> \o Escape(s) \o <<Quote>>

\* TypeListToStringSlice; a []string of a message is a sequence, nil and
\* empty being the same to the message
TypeListToStringSlice(t) == [i \in DOMAIN t.elems |-> Trim(GoQuote(t.elems[i]))]

\* utils.StringSliceToTypeList
StringSliceToTypeList(e) == IF Len(e) = 0 THEN ListNull ELSE ListValue(e)

Str123 == <<"1", "2", "3">>
StrCert == <<"c", "a">>
StrRule == <<"r", Quote>>
StrC1 == <<"c", "1">>
StrC2 == <<"c", "2">>

\* *models.AwsPrivateLink and *models.AzurePrivateLink (list: the allowed
\* principals, the allowed subscriptions)
NilLinkModel ==
    [nil |-> TRUE, Enabled |-> BoolNull, ConnectConsole |-> BoolNull, List |-> ListNull]
LinkModel(en, cc, l) ==
    [nil |-> FALSE, Enabled |-> en, ConnectConsole |-> cc, List |-> l]

\* *AWSPrivateLinkSpec, *AWSPrivateLinkStatus and their Azure counterparts
NilLinkSpec == [nil |-> TRUE, Enabled |-> FALSE, ConnectConsole |-> FALSE, List |-> <<>>]
LinkSpec(en, cc, l) == [nil |-> FALSE, Enabled |-> en, ConnectConsole |-> cc, List |-> l]

\* *models.GcpPrivateServiceConnect: ConsumerAcceptList is a Go slice of
\* the sources
NilGcpModel ==
    [nil |-> TRUE, Enabled |-> BoolNull, GlobalAccessEnabled |-> BoolNull,
     ConsumerAcceptList |-> ListNull]
GcpModel(en, ga, l) ==
    [nil |-> FALSE, Enabled |-> en, GlobalAccessEnabled |-> ga, ConsumerAcceptList |-> l]

\* *GCPPrivateServiceConnectSpec and *GCPPrivateServiceConnectStatus
NilGcpSpec ==
    [nil |-> TRUE, Enabled |-> FALSE, GlobalAccessEnabled |-> FALSE,
     ConsumerAcceptList |-> <<>>]
GcpSpec(en, ga, l) ==
    [nil |-> FALSE, Enabled |-> en, GlobalAccessEnabled |-> ga, ConsumerAcceptList |-> l]

\* *models.Mtls
NilMtlsModel ==
    [nil |-> TRUE, Enabled |-> BoolNull, CaCertificatesPem |-> ListNull,
     PrincipalMappingRules |-> ListNull]
MtlsModel(en, ca, pr) ==
    [nil |-> FALSE, Enabled |-> en, CaCertificatesPem |-> ca, PrincipalMappingRules |-> pr]

\* *MTLSSpec
NilMtlsSpec ==
    [nil |-> TRUE, Enabled |-> FALSE, CaCertificatesPem |-> <<>>,
     PrincipalMappingRules |-> <<>>]
MtlsSpec(en, ca, pr) ==
    [nil |-> FALSE, Enabled |-> en, CaCertificatesPem |-> ca, PrincipalMappingRules |-> pr]

\* *models.KafkaAPI, *models.HTTPProxy, *models.SchemaRegistry, and the
\* *KafkaAPISpec, *HTTPProxySpec, *SchemaRegistrySpec of the messages
NilApiModel == [nil |-> TRUE, Mtls |-> NilMtlsModel]
ApiModel(m) == [nil |-> FALSE, Mtls |-> m]
NilApiSpec == [nil |-> TRUE, Mtls |-> NilMtlsSpec]
ApiSpec(m) == [nil |-> FALSE, Mtls |-> m]

\* gcpConnectConsumerModelToStruct
gcpConnectConsumerModelToStruct(accept) == accept.elems

\* gcpConnectConsumerStructToModel
gcpConnectConsumerStructToModel(accept) == ListValue(accept)

isMtlsStructNil(m) ==
    m.nil \/ (BoolIsNull(m.Enabled) /\ m.CaCertificatesPem.null
              /\ m.PrincipalMappingRules.null)

\* isMtlsSpecNil looking at the two lists only
isMtlsSpecNil_ListsOnly(m) ==
    m.nil \/ (Len(m.CaCertificatesPem) = 0 /\ Len(m.PrincipalMappingRules) = 0)

isMtlsSpecNil(m) ==
    m.nil \/ (~m.Enabled /\ Len(m.CaCertificatesPem) = 0
              /\ Len(m.PrincipalMappingRules) = 0)

\* isMtlsNil on a *models.KafkaAPI, *models.HTTPProxy, *models.SchemaRegistry
isMtlsNil(container) ==
    container.nil \/ container.Mtls.nil \/ isMtlsStructNil(container.Mtls)

toMtlsModel(mtls) ==
    IF isMtlsSpecNil(mtls)
    THEN NilMtlsModel
    ELSE MtlsModel(BoolValue(mtls.Enabled),
                   StringSliceToTypeList(mtls.CaCertificatesPem),
                   StringSliceToTypeList(mtls.PrincipalMappingRules))

toMtlsSpec(mtls) ==
    IF isMtlsStructNil(mtls)
    THEN MtlsSpec(FALSE, <<>>, <<>>)
    ELSE MtlsSpec(ValueBool(mtls.Enabled),
                  TypeListToStringSlice(mtls.CaCertificatesPem),
                  TypeListToStringSlice(mtls.PrincipalMappingRules))

\* isAwsPrivateLinkStructNil without the test of the pointer
isAwsPrivateLinkStructNil_PresentOnly(m) ==
    ~m.nil /\ BoolIsNull(m.Enabled) /\ BoolIsNull(m.ConnectConsole) /\ m.List.null

isAwsPrivateLinkStructNil(m) ==
    m.nil \/ (BoolIsNull(m.Enabled) /\ BoolIsNull(m.ConnectConsole) /\ m.List.null)

isAwsPrivateLinkSpecNil(m) ==
    m.nil \/ (~m.Enabled /\ ~m.ConnectConsole /\ Len(m.List) = 0)

isAzurePrivateLinkStructNil(m) ==
    m.nil \/ (BoolIsNull(m.Enabled) /\ m.List.null /\ BoolIsNull(m.ConnectConsole))

isAzurePrivateLinkSpecNil(m) ==
    m.nil \/ (~m.Enabled /\ Len(m.List) = 0 /\ ~m.ConnectConsole)

isGcpPrivateServiceConnectStructNil(m) ==
    m.nil \/ (BoolIsNull(m.Enabled) /\ BoolIsNull(m.GlobalAccessEnabled)
              /\ Len(m.ConsumerAcceptList.elems) = 0)

isGcpPrivateServiceConnectSpecNil(m) ==
    m.nil \/ (~m.Enabled /\ ~m.GlobalAccessEnabled /\ Len(m.ConsumerAcceptList) = 0)

\* the AWSPrivateLinkSpec / AzurePrivateLinkSpec built from a model block
LinkSpecOf(m) ==
    LinkSpec(ValueBool(m.Enabled), ValueBool(m.ConnectConsole),
             TypeListToStringSlice(m.List))

\* the GCPPrivateServiceConnectSpec built from a model block
GcpSpecOf(m) ==
    GcpSpec(ValueBool(m.Enabled), ValueBool(m.GlobalAccessEnabled),
            gcpConnectConsumerModelToStruct(m.ConsumerAcceptList))

\* generateClusterRequest: the ClusterCreate of a model
generateClusterRequest(model) ==
    [Name |-> ValueString(model.Name),
     AwsPrivateLink |->
         IF ~isAwsPrivateLinkStructNil(model.AwsPrivateLink)
         THEN LinkSpecOf(model.AwsPrivateLink) ELSE NilLinkSpec,
     GcpPrivateServiceConnect |->
         IF ~isGcpPrivateServiceConnectStructNil(model.GcpPrivateServiceConnect)
         THEN GcpSpecOf(model.GcpPrivateServiceConnect) ELSE NilGcpSpec,
     AzurePrivateLink |->
         IF ~isAzurePrivateLinkStructNil(model.AzurePrivateLink)
         THEN LinkSpecOf(model.AzurePrivateLink) ELSE NilLinkSpec,
     KafkaApi |->
         IF ~model.KafkaAPI.nil
         THEN ApiSpec(toMtlsSpec(model.KafkaAPI.Mtls)) ELSE NilApiSpec,
     HttpProxy |->
         IF ~model.HTTPProxy.nil
         THEN ApiSpec(toMtlsSpec(model.HTTPProxy.Mtls)) ELSE NilApiSpec,
     SchemaRegistry |->
         IF ~model.SchemaRegistry.nil
         THEN ApiSpec(toMtlsSpec(model.SchemaRegistry.Mtls)) ELSE NilApiSpec,
     ReadReplicaClusterIds |->
         IF ~model.ReadReplicaClusterIDs.null
         THEN TypeListToStringSlice(model.ReadReplicaClusterIDs) ELSE <<>>]

\* generateClusterUpdate: the ClusterUpdate of a model
generateClusterUpdate(model) ==
    [Id |-> ValueString(model.ID),
     Name |-> ValueString(model.Name),
     ReadReplicaClusterIds |-> TypeListToStringSlice(model.ReadReplicaClusterIDs),
     AwsPrivateLink |->
         IF ~isAwsPrivateLinkStructNil(model.AwsPrivateLink)
         THEN LinkSpecOf(model.AwsPrivateLink) ELSE NilLinkSpec,
     AzurePrivateLink |->
         IF ~isAzurePrivateLinkStructNil(model.AzurePrivateLink)
         THEN LinkSpecOf(model.AzurePrivateLink) ELSE NilLinkSpec,
     GcpPrivateServiceConnect |->
         IF ~isGcpPrivateServiceConnectStructNil(model.GcpPrivateServiceConnect)
         THEN GcpSpecOf(model.GcpPrivateServiceConnect) ELSE NilGcpSpec,
     KafkaApi |->
         IF ~isMtlsNil(model.KafkaAPI)
         THEN ApiSpec(toMtlsSpec(model.KafkaAPI.Mtls)) ELSE NilApiSpec,
     HttpProxy |->
         IF ~isMtlsNil(model.HTTPProxy)
         THEN ApiSpec(toMtlsSpec(model.HTTPProxy.Mtls)) ELSE NilApiSpec,
     SchemaRegistry |->
         IF ~isMtlsNil(model.SchemaRegistry)
         THEN ApiSpec(toMtlsSpec(model.SchemaRegistry.Mtls)) ELSE NilApiSpec]

\* the AllowedPrincipals / AllowedSubscriptions of generateModel: never null
NonNullList(e) ==
    LET l == StringSliceToTypeList(e) IN IF l.null THEN ListValue(<<>>) ELSE l

\* GetMtls() of GetKafkaApi(), GetHttpProxy(), GetSchemaRegistry()
GetMtls(api) == IF api.nil THEN NilMtlsSpec ELSE api.Mtls

\* the KafkaAPI / HTTPProxy / SchemaRegistry of generateModel
ApiModelOf(api) ==
    LET m == toMtlsModel(GetMtls(api)) IN IF ~m.nil THEN ApiModel(m) ELSE NilApiModel

\* generateModel: the model of a controlplanev1beta2.Cluster
generateModel(c) ==
    [Name |-> StringValue(c.Name),
     ID |-> StringValue(c.Id),
     ReadReplicaClusterIDs |-> StringSliceToTypeList(c.ReadReplicaClusterIds),
     AwsPrivateLink |->
         IF ~isAwsPrivateLinkSpecNil(c.AwsPrivateLink)
         THEN LinkModel(BoolValue(c.AwsPrivateLink.Enabled),
                        BoolValue(c.AwsPrivateLink.ConnectConsole),
                        NonNullList(c.AwsPrivateLink.List))
         ELSE NilLinkModel,
     GcpPrivateServiceConnect |->
         IF ~isGcpPrivateServiceConnectSpecNil(c.GcpPrivateServiceConnect)
         THEN GcpModel(BoolValue(c.GcpPrivateServiceConnect.Enabled),
                       BoolValue(c.GcpPrivateServiceConnect.GlobalAccessEnabled),
                       gcpConnectConsumerStructToModel(
                           c.GcpPrivateServiceConnect.ConsumerAcceptList))
         ELSE NilGcpModel,
     AzurePrivateLink |->
         IF ~isAzurePrivateLinkSpecNil(c.AzurePrivateLink)
         THEN LinkModel(BoolValue(c.AzurePrivateLink.Enabled),
                        BoolValue(c.AzurePrivateLink.ConnectConsole),
                        NonNullList(c.AzurePrivateLink.List))
         ELSE NilLinkModel,
     KafkaAPI |-> ApiModelOf(c.KafkaApi),
     HTTPProxy |-> ApiModelOf(c.HttpProxy),
     SchemaRegistry |-> ApiModelOf(c.SchemaRegistry)]

\* ------------------------------------------------------------------------
\* The update request (cluster.go:255-267)
\* ------------------------------------------------------------------------

\* the field paths of a ClusterUpdate, the identifier apart, in the order of
\* its fields
UpdateFields ==
    <<"name", "read_replica_cluster_ids", "aws_private_link", "azure_private_link",
      "gcp_private_service_connect", "kafka_api", "http_proxy", "schema_registry">>

\* the field of a ClusterUpdate at a path
FieldOf(u, path) ==
    CASE path = "name" -> u.Name
      [] path = "read_replica_cluster_ids" -> u.ReadReplicaClusterIds
      [] path = "aws_private_link" -> u.AwsPrivateLink
      [] path = "azure_private_link" -> u.AzurePrivateLink
      [] path = "gcp_private_service_connect" -> u.GcpPrivateServiceConnect
      [] path = "kafka_api" -> u.KafkaApi
      [] path = "http_proxy" -> u.HttpProxy
      [] path = "schema_registry" -> u.SchemaRegistry

\* a ClusterUpdate with no field set
ZeroUpdate ==
    [Id |-> <<>>, Name |-> <<>>, ReadReplicaClusterIds |-> <<>>,
     AwsPrivateLink |-> NilLinkSpec, AzurePrivateLink |-> NilLinkSpec,
     GcpPrivateServiceConnect |-> NilGcpSpec,
     KafkaApi |-> NilApiSpec, HttpProxy |-> NilApiSpec, SchemaRegistry |-> NilApiSpec]

\* GenerateProtobufDiffAndUpdateMask that masks and copies every field
GenerateProtobufDiffAndUpdateMask_Full(new, old) ==
    [update |-> new, fieldmask |-> UpdateFields]

\* GenerateProtobufDiffAndUpdateMask that names the enabled leaf of a changed
\* block in place of the block
GenerateProtobufDiffAndUpdateMask_Leaves(new, old) ==
    LET Changed(p) == FieldOf(new, p) # FieldOf(old, p)
        changed == SelectSeq(UpdateFields, Changed)
        Leaf(p) == IF p \in {"name", "read_replica_cluster_ids"}
                   THEN p ELSE p \o ".enabled"
    IN  [update |->
             [fld \in DOMAIN ZeroUpdate |->
                 IF fld = "Id" \/ new[fld] # old[fld] THEN new[fld] ELSE ZeroUpdate[fld]],
         fieldmask |-> [i \in DOMAIN changed |-> Leaf(changed[i])]]

\* utils.GenerateProtobufDiffAndUpdateMask: a top-level field whose value in
\* new differs from old is put in the mask and copied from new, a nested
\* block as a whole under its root path; the identifier is copied and never
\* put in the mask
GenerateProtobufDiffAndUpdateMask(new, old) ==
    LET Changed(p) == FieldOf(new, p) # FieldOf(old, p)
        Pick(p) == IF Changed(p) THEN FieldOf(new, p) ELSE FieldOf(ZeroUpdate, p)
    IN  [update |->
             [Id |-> new.Id,
              Name |-> Pick("name"),
              ReadReplicaClusterIds |-> Pick("read_replica_cluster_ids"),
              AwsPrivateLink |-> Pick("aws_private_link"),
              AzurePrivateLink |-> Pick("azure_private_link"),
              GcpPrivateServiceConnect |-> Pick("gcp_private_service_connect"),
              KafkaApi |-> Pick("kafka_api"),
              HttpProxy |-> Pick("http_proxy"),
              SchemaRegistry |-> Pick("schema_registry")],
         fieldmask |-> SelectSeq(UpdateFields, Changed)]

\* generateUpdateRequest that addresses the update by the id of the state
generateUpdateRequest_StateId(p, s) ==
    LET planUpdate == generateClusterUpdate(p)
        stateUpdate == generateClusterUpdate(s)
        d == GenerateProtobufDiffAndUpdateMask(planUpdate, stateUpdate)
    IN  [Cluster |-> [d.update EXCEPT !.Id = stateUpdate.Id], UpdateMask |-> d.fieldmask]

\* generateUpdateRequest with the plan and the state exchanged in the diff
generateUpdateRequest_Swapped(p, s) ==
    LET planUpdate == generateClusterUpdate(p)
        stateUpdate == generateClusterUpdate(s)
        d == GenerateProtobufDiffAndUpdateMask(stateUpdate, planUpdate)
    IN  [Cluster |-> [d.update EXCEPT !.Id = planUpdate.Id], UpdateMask |-> d.fieldmask]

generateUpdateRequest(p, s) ==
    LET planUpdate == generateClusterUpdate(p)
        stateUpdate == generateClusterUpdate(s)
        d == GenerateProtobufDiffAndUpdateMask(planUpdate, stateUpdate)
    IN  [Cluster |-> [d.update EXCEPT !.Id = planUpdate.Id], UpdateMask |-> d.fieldmask]

\* ------------------------------------------------------------------------
\* Inputs of the conversions
\* ------------------------------------------------------------------------

\* a models.Cluster with no optional block
BaseModel ==
    [Name |-> StringValue(StrC1), ID |-> StringValue(StrId1),
     ReadReplicaClusterIDs |-> ListNull,
     AwsPrivateLink |-> NilLinkModel, AzurePrivateLink |-> NilLinkModel,
     GcpPrivateServiceConnect |-> NilGcpModel,
     KafkaAPI |-> NilApiModel, HTTPProxy |-> NilApiModel,
     SchemaRegistry |-> NilApiModel]

\* a controlplanev1beta2.Cluster with no optional block
BaseCluster ==
    [Name |-> StrC1, Id |-> StrId1, ReadReplicaClusterIds |-> <<>>,
     AwsPrivateLink |-> NilLinkSpec, AzurePrivateLink |-> NilLinkSpec,
     GcpPrivateServiceConnect |-> NilGcpSpec,
     KafkaApi |-> NilApiSpec, HttpProxy |-> NilApiSpec, SchemaRegistry |-> NilApiSpec]

Bools == {BoolNull, BoolValue(FALSE), BoolValue(TRUE)}
Lists == {ListNull, ListValue(<<>>), ListValue(<<Str123>>)}

LinkModels == {NilLinkModel} \cup {LinkModel(en, cc, l) : en \in Bools, cc \in Bools, l \in Lists}
GcpModels == {NilGcpModel} \cup {GcpModel(en, ga, l) : en \in Bools, ga \in Bools, l \in Lists}
MtlsModels ==
    {NilMtlsModel}
        \cup {MtlsModel(en, ca, pr) :
                en \in Bools,
                ca \in {ListNull, ListValue(<<>>), ListValue(<<StrCert>>)},
                pr \in {ListNull, ListValue(<<>>), ListValue(<<StrRule>>)}}
ApiModels == {NilApiModel} \cup {ApiModel(m) : m \in MtlsModels}

\* the models.Cluster values: one optional block, or the read replicas, set
Models ==
    {[BaseModel EXCEPT !.AwsPrivateLink = b] : b \in LinkModels}
        \cup {[BaseModel EXCEPT !.AzurePrivateLink = b] : b \in LinkModels}
        \cup {[BaseModel EXCEPT !.GcpPrivateServiceConnect = b] : b \in GcpModels}
        \cup {[BaseModel EXCEPT !.KafkaAPI = b] : b \in ApiModels}
        \cup {[BaseModel EXCEPT !.HTTPProxy = b] : b \in ApiModels}
        \cup {[BaseModel EXCEPT !.SchemaRegistry = b] : b \in ApiModels}
        \cup {[BaseModel EXCEPT !.ReadReplicaClusterIDs = l] : l \in Lists}
        \cup {[BaseModel EXCEPT !.Name = StringValue(StrC2)],
              [BaseModel EXCEPT !.ID = NullStr]}

Slices == {<<>>, <<Str123>>}
LinkSpecs == {NilLinkSpec} \cup {LinkSpec(en, cc, l) : en \in BOOLEAN, cc \in BOOLEAN, l \in Slices}
GcpSpecs == {NilGcpSpec} \cup {GcpSpec(en, ga, l) : en \in BOOLEAN, ga \in BOOLEAN, l \in Slices}
MtlsSpecs ==
    {NilMtlsSpec}
        \cup {MtlsSpec(en, ca, pr) :
                en \in BOOLEAN, ca \in {<<>>, <<StrCert>>}, pr \in {<<>>, <<StrRule>>}}
ApiSpecs == {NilApiSpec} \cup {ApiSpec(m) : m \in MtlsSpecs}

\* the controlplanev1beta2.Cluster values: one optional block, or the read
\* replicas, set
Clusters ==
    {[BaseCluster EXCEPT !.AwsPrivateLink = b] : b \in LinkSpecs}
        \cup {[BaseCluster EXCEPT !.AzurePrivateLink = b] : b \in LinkSpecs}
        \cup {[BaseCluster EXCEPT !.GcpPrivateServiceConnect = b] : b \in GcpSpecs}
        \cup {[BaseCluster EXCEPT !.KafkaApi = b] : b \in ApiSpecs}
        \cup {[BaseCluster EXCEPT !.HttpProxy = b] : b \in ApiSpecs}
        \cup {[BaseCluster EXCEPT !.SchemaRegistry = b] : b \in ApiSpecs}
        \cup {[BaseCluster EXCEPT !.ReadReplicaClusterIds = l] : l \in Slices}

\* ------------------------------------------------------------------------
\* The conversions of utils and Provider.Configure
\* ------------------------------------------------------------------------

\* (value, nil) and (-1, error) as a StringToX with an error result returns
Ok(v) == [val |-> v, err |-> NilErr]
Failed(m) == [val |-> "-1", err |-> Err(m)]

StrAll == <<"A", "L", "L">>
StrAllow == <<"A", "L", "L", "O", "W">>
StrAlter == <<"A", "L", "T", "E", "R">>
StrAlterConfigs == <<"A", "L", "T", "E", "R", "_", "C", "O", "N", "F", "I", "G", "S">>
StrAny == <<"A", "N", "Y">>
StrCluster == <<"C", "L", "U", "S", "T", "E", "R">>
StrClusterAction ==
    <<"C", "L", "U", "S", "T", "E", "R", "_", "A", "C", "T", "I", "O", "N">>
StrCreate == <<"C", "R", "E", "A", "T", "E">>
StrCreateTokens == <<"C", "R", "E", "A", "T", "E", "_", "T", "O", "K", "E", "N", "S">>
StrDefaultConfig ==
    <<"D", "E", "F", "A", "U", "L", "T", "_", "C", "O", "N", "F", "I", "G">>
StrDelegationToken ==
    <<"D", "E", "L", "E", "G", "A", "T", "I", "O", "N", "_", "T", "O", "K", "E",
      "N">>
StrDelete == <<"D", "E", "L", "E", "T", "E">>
StrDeny == <<"D", "E", "N", "Y">>
StrDescribe == <<"D", "E", "S", "C", "R", "I", "B", "E">>
StrDescribeConfigs ==
    <<"D", "E", "S", "C", "R", "I", "B", "E", "_", "C", "O", "N", "F", "I", "G",
      "S">>
StrDescribeTokens ==
    <<"D", "E", "S", "C", "R", "I", "B", "E", "_", "T", "O", "K", "E", "N", "S">>
StrDynamicBrokerConfig ==
    <<"D", "Y", "N", "A", "M", "I", "C", "_", "B", "R", "O", "K", "E", "R", "_",
      "C", "O", "N", "F", "I", "G">>
StrDynamicBrokerLoggerConfig ==
    <<"D", "Y", "N", "A", "M", "I", "C", "_", "B", "R", "O", "K", "E", "R", "_",
      "L", "O", "G", "G", "E", "R", "_", "C", "O", "N", "F", "I", "G">>
StrDynamicDefaultBrokerConfig ==
    <<"D", "Y", "N", "A", "M", "I", "C", "_", "D", "E", "F", "A", "U", "L", "T",
      "_", "B", "R", "O", "K", "E", "R", "_", "C", "O", "N", "F", "I", "G">>
StrDynamicTopicConfig ==
    <<"D", "Y", "N", "A", "M", "I", "C", "_", "T", "O", "P", "I", "C", "_", "C",
      "O", "N", "F", "I", "G">>
StrGroup == <<"G", "R", "O", "U", "P">>
StrIdempotentWrite ==
    <<"I", "D", "E", "M", "P", "O", "T", "E", "N", "T", "_", "W", "R", "I", "T",
      "E">>
StrLiteral == <<"L", "I", "T", "E", "R", "A", "L">>
StrMatch == <<"M", "A", "T", "C", "H">>
StrPrefixed == <<"P", "R", "E", "F", "I", "X", "E", "D">>
StrPrivate == <<"p", "r", "i", "v", "a", "t", "e">>
StrPublic == <<"p", "u", "b", "l", "i", "c">>
StrRead == <<"R", "E", "A", "D">>
StrScramSha256 == <<"s", "c", "r", "a", "m", "-", "s", "h", "a", "-", "2", "5", "6">>
StrScramSha512 == <<"s", "c", "r", "a", "m", "-", "s", "h", "a", "-", "5", "1", "2">>
StrSourceUnspecified ==
    <<"S", "O", "U", "R", "C", "E", "_", "U", "N", "S", "P", "E", "C", "I", "F",
      "I", "E", "D">>
StrStaticBrokerConfig ==
    <<"S", "T", "A", "T", "I", "C", "_", "B", "R", "O", "K", "E", "R", "_", "C",
      "O", "N", "F", "I", "G">>
StrTopic == <<"T", "O", "P", "I", "C">>
StrTransactionalId ==
    <<"T", "R", "A", "N", "S", "A", "C", "T", "I", "O", "N", "A", "L", "_", "I",
      "D">>
StrUnknown == <<"U", "N", "K", "N", "O", "W", "N">>
StrUnknownACLOperation ==
    <<"u", "n", "k", "n", "o", "w", "n", " ", "A", "C", "L", "_", "O", "p", "e",
      "r", "a", "t", "i", "o", "n", ":", " ">>
StrUnknownACLPermissionType ==
    <<"u", "n", "k", "n", "o", "w", "n", " ", "A", "C", "L", "_", "P", "e", "r",
      "m", "i", "s", "s", "i", "o", "n", "T", "y", "p", "e", ":", " ">>
StrUnknownACLResourcePatternType ==
    <<"u", "n", "k", "n", "o", "w", "n", " ", "A", "C", "L", "_", "R", "e", "s",
      "o", "u", "r", "c", "e", "P", "a", "t", "t", "e", "r", "n", "T", "y", "p",
      "e", ":", " ">>
StrUnknownACLResourceType ==
    <<"u", "n", "k", "n", "o", "w", "n", " ", "A", "C", "L", "_", "R", "e", "s",
      "o", "u", "r", "c", "e", "T", "y", "p", "e", ":", " ">>
StrUnknownTopicConfigurationSource ==
    <<"u", "n", "k", "n", "o", "w", "n", " ", "T", "o", "p", "i", "c", "_", "C",
      "o", "n", "f", "i", "g", "u", "r", "a", "t", "i", "o", "n", "_", "S", "o",
      "u", "r", "c", "e", ":", " ">>
StrUnspecified == <<"U", "N", "S", "P", "E", "C", "I", "F", "I", "E", "D">>
StrUser == <<"U", "S", "E", "R">>
StrWrite == <<"W", "R", "I", "T", "E">>

StringToConnectionType(s) ==
    CASE ToLower(s) = StrPublic -> "Cluster_CONNECTION_TYPE_PUBLIC"
      [] ToLower(s) = StrPrivate -> "Cluster_CONNECTION_TYPE_PRIVATE"
      [] OTHER -> "Cluster_CONNECTION_TYPE_UNSPECIFIED"

ConnectionTypeToString(e) ==
    CASE e = "Cluster_CONNECTION_TYPE_PUBLIC" -> StrPublic
      [] e = "Cluster_CONNECTION_TYPE_PRIVATE" -> StrPrivate
      [] OTHER -> providerUnspecified

StringToUserMechanism(s) ==
    CASE ToLower(s) = StrScramSha256 -> "SASLMechanism_SASL_MECHANISM_SCRAM_SHA_256"
      [] ToLower(s) = StrScramSha512 -> "SASLMechanism_SASL_MECHANISM_SCRAM_SHA_512"
      [] OTHER -> "SASLMechanism_SASL_MECHANISM_UNSPECIFIED"

UserMechanismToString(e) ==
    CASE e = "SASLMechanism_SASL_MECHANISM_SCRAM_SHA_256" -> StrScramSha256
      [] e = "SASLMechanism_SASL_MECHANISM_SCRAM_SHA_512" -> StrScramSha512
      [] OTHER -> providerUnspecified

StringToACLResourceType(s) ==
    CASE ToUpper(s) = StrUnspecified -> Ok("ACL_RESOURCE_TYPE_UNSPECIFIED")
      [] ToUpper(s) = StrAny -> Ok("ACL_RESOURCE_TYPE_ANY")
      [] ToUpper(s) = StrTopic -> Ok("ACL_RESOURCE_TYPE_TOPIC")
      [] ToUpper(s) = StrGroup -> Ok("ACL_RESOURCE_TYPE_GROUP")
      [] ToUpper(s) = StrCluster -> Ok("ACL_RESOURCE_TYPE_CLUSTER")
      [] ToUpper(s) = StrTransactionalId -> Ok("ACL_RESOURCE_TYPE_TRANSACTIONAL_ID")
      [] ToUpper(s) = StrDelegationToken -> Ok("ACL_RESOURCE_TYPE_DELEGATION_TOKEN")
      [] ToUpper(s) = StrUser -> Ok("ACL_RESOURCE_TYPE_USER")
      [] OTHER -> Failed(StrUnknownACLResourceType \o s)

ACLResourceTypeToString(e) ==
    CASE e = "ACL_RESOURCE_TYPE_UNSPECIFIED" -> StrUnspecified
      [] e = "ACL_RESOURCE_TYPE_ANY" -> StrAny
      [] e = "ACL_RESOURCE_TYPE_TOPIC" -> StrTopic
      [] e = "ACL_RESOURCE_TYPE_GROUP" -> StrGroup
      [] e = "ACL_RESOURCE_TYPE_CLUSTER" -> StrCluster
      [] e = "ACL_RESOURCE_TYPE_TRANSACTIONAL_ID" -> StrTransactionalId
      [] e = "ACL_RESOURCE_TYPE_DELEGATION_TOKEN" -> StrDelegationToken
      [] e = "ACL_RESOURCE_TYPE_USER" -> StrUser
      [] OTHER -> StrUnknown

StringToACLResourcePatternType(s) ==
    CASE ToUpper(s) = StrUnspecified -> Ok("ACL_RESOURCE_PATTERN_TYPE_UNSPECIFIED")
      [] ToUpper(s) = StrAny -> Ok("ACL_RESOURCE_PATTERN_TYPE_ANY")
      [] ToUpper(s) = StrMatch -> Ok("ACL_RESOURCE_PATTERN_TYPE_MATCH")
      [] ToUpper(s) = StrLiteral -> Ok("ACL_RESOURCE_PATTERN_TYPE_LITERAL")
      [] ToUpper(s) = StrPrefixed -> Ok("ACL_RESOURCE_PATTERN_TYPE_PREFIXED")
      [] OTHER -> Failed(StrUnknownACLResourcePatternType \o s)

ACLResourcePatternTypeToString(e) ==
    CASE e = "ACL_RESOURCE_PATTERN_TYPE_UNSPECIFIED" -> StrUnspecified
      [] e = "ACL_RESOURCE_PATTERN_TYPE_ANY" -> StrAny
      [] e = "ACL_RESOURCE_PATTERN_TYPE_MATCH" -> StrMatch
      [] e = "ACL_RESOURCE_PATTERN_TYPE_LITERAL" -> StrLiteral
      [] e = "ACL_RESOURCE_PATTERN_TYPE_PREFIXED" -> StrPrefixed
      [] OTHER -> StrUnknown

StringToACLOperation(s) ==
    CASE ToUpper(s) = StrUnspecified -> Ok("ACL_OPERATION_UNSPECIFIED")
      [] ToUpper(s) = StrAny -> Ok("ACL_OPERATION_ANY")
      [] ToUpper(s) = StrAll -> Ok("ACL_OPERATION_ALL")
      [] ToUpper(s) = StrRead -> Ok("ACL_OPERATION_READ")
      [] ToUpper(s) = StrWrite -> Ok("ACL_OPERATION_WRITE")
      [] ToUpper(s) = StrCreate -> Ok("ACL_OPERATION_CREATE")
      [] ToUpper(s) = StrDelete -> Ok("ACL_OPERATION_DELETE")
      [] ToUpper(s) = StrAlter -> Ok("ACL_OPERATION_ALTER")
      [] ToUpper(s) = StrDescribe -> Ok("ACL_OPERATION_DESCRIBE")
      [] ToUpper(s) = StrClusterAction -> Ok("ACL_OPERATION_CLUSTER_ACTION")
      [] ToUpper(s) = StrDescribeConfigs -> Ok("ACL_OPERATION_DESCRIBE_CONFIGS")
      [] ToUpper(s) = StrAlterConfigs -> Ok("ACL_OPERATION_ALTER_CONFIGS")
      [] ToUpper(s) = StrIdempotentWrite -> Ok("ACL_OPERATION_IDEMPOTENT_WRITE")
      [] ToUpper(s) = StrCreateTokens -> Ok("ACL_OPERATION_CREATE_TOKENS")
      [] ToUpper(s) = StrDescribeTokens -> Ok("ACL_OPERATION_DESCRIBE_TOKENS")
      [] OTHER -> Failed(StrUnknownACLOperation \o s)

ACLOperationToString(e) ==
    CASE e = "ACL_OPERATION_UNSPECIFIED" -> StrUnspecified
      [] e = "ACL_OPERATION_ANY" -> StrAny
      [] e = "ACL_OPERATION_ALL" -> StrAll
      [] e = "ACL_OPERATION_READ" -> StrRead
      [] e = "ACL_OPERATION_WRITE" -> StrWrite
      [] e = "ACL_OPERATION_CREATE" -> StrCreate
      [] e = "ACL_OPERATION_DELETE" -> StrDelete
      [] e = "ACL_OPERATION_ALTER" -> StrAlter
      [] e = "ACL_OPERATION_DESCRIBE" -> StrDescribe
      [] e = "ACL_OPERATION_CLUSTER_ACTION" -> StrClusterAction
      [] e = "ACL_OPERATION_DESCRIBE_CONFIGS" -> StrDescribeConfigs
      [] e = "ACL_OPERATION_ALTER_CONFIGS" -> StrAlterConfigs
      [] e = "ACL_OPERATION_IDEMPOTENT_WRITE" -> StrIdempotentWrite
      [] e = "ACL_OPERATION_CREATE_TOKENS" -> StrCreateTokens
      [] e = "ACL_OPERATION_DESCRIBE_TOKENS" -> StrDescribeTokens
      [] OTHER -> StrUnknown

StringToACLPermissionType(s) ==
    CASE ToUpper(s) = StrUnspecified -> Ok("ACL_PERMISSION_TYPE_UNSPECIFIED")
      [] ToUpper(s) = StrAny -> Ok("ACL_PERMISSION_TYPE_ANY")
      [] ToUpper(s) = StrDeny -> Ok("ACL_PERMISSION_TYPE_DENY")
      [] ToUpper(s) = StrAllow -> Ok("ACL_PERMISSION_TYPE_ALLOW")
      [] OTHER -> Failed(StrUnknownACLPermissionType \o s)

ACLPermissionTypeToString(e) ==
    CASE e = "ACL_PERMISSION_TYPE_UNSPECIFIED" -> StrUnspecified
      [] e = "ACL_PERMISSION_TYPE_ANY" -> StrAny
      [] e = "ACL_PERMISSION_TYPE_DENY" -> StrDeny
      [] e = "ACL_PERMISSION_TYPE_ALLOW" -> StrAllow
      [] OTHER -> StrUnknown

StringToTopicConfigurationSource(s) ==
    CASE ToUpper(s) = StrSourceUnspecified -> Ok("Topic_Configuration_SOURCE_UNSPECIFIED")
      [] ToUpper(s) = StrDynamicTopicConfig -> Ok("Topic_Configuration_SOURCE_DYNAMIC_TOPIC_CONFIG")
      [] ToUpper(s) = StrDynamicBrokerConfig -> Ok("Topic_Configuration_SOURCE_DYNAMIC_BROKER_CONFIG")
      [] ToUpper(s) = StrDynamicDefaultBrokerConfig -> Ok("Topic_Configuration_SOURCE_DYNAMIC_DEFAULT_BROKER_CONFIG")
      [] ToUpper(s) = StrStaticBrokerConfig -> Ok("Topic_Configuration_SOURCE_STATIC_BROKER_CONFIG")
      [] ToUpper(s) = StrDefaultConfig -> Ok("Topic_Configuration_SOURCE_DEFAULT_CONFIG")
      [] ToUpper(s) = StrDynamicBrokerLoggerConfig -> Ok("Topic_Configuration_SOURCE_DYNAMIC_BROKER_LOGGER_CONFIG")
      [] OTHER -> Failed(StrUnknownTopicConfigurationSource \o s)

TopicConfigurationSourceToString(e) ==
    CASE e = "Topic_Configuration_SOURCE_UNSPECIFIED" -> StrSourceUnspecified
      [] e = "Topic_Configuration_SOURCE_DYNAMIC_TOPIC_CONFIG" -> StrDynamicTopicConfig
      [] e = "Topic_Configuration_SOURCE_DYNAMIC_BROKER_CONFIG" -> StrDynamicBrokerConfig
      [] e = "Topic_Configuration_SOURCE_DYNAMIC_DEFAULT_BROKER_CONFIG" -> StrDynamicDefaultBrokerConfig
      [] e = "Topic_Configuration_SOURCE_STATIC_BROKER_CONFIG" -> StrStaticBrokerConfig
      [] e = "Topic_Configuration_SOURCE_DEFAULT_CONFIG" -> StrDefaultConfig
      [] e = "Topic_Configuration_SOURCE_DYNAMIC_BROKER_LOGGER_CONFIG" -> StrDynamicBrokerLoggerConfig
      [] OTHER -> StrUnknown

\* the enum conversions by family: (value, error) of StringToX, the error
\* nil for the conversions that return none

EnumFamilies ==
    {"CloudProvider", "ClusterType", "ConnectionType", "UserMechanism", "ACLResourceType",
     "ACLResourcePatternType", "ACLOperation", "ACLPermissionType", "TopicConfigurationSource"}

StringToEnum(f, s) ==
    CASE f = "CloudProvider" -> Ok(StringToCloudProvider(s))
      [] f = "ClusterType" -> Ok(StringToClusterType(s))
      [] f = "ConnectionType" -> Ok(StringToConnectionType(s))
      [] f = "UserMechanism" -> Ok(StringToUserMechanism(s))
      [] f = "ACLResourceType" -> StringToACLResourceType(s)
      [] f = "ACLResourcePatternType" -> StringToACLResourcePatternType(s)
      [] f = "ACLOperation" -> StringToACLOperation(s)
      [] f = "ACLPermissionType" -> StringToACLPermissionType(s)
      [] f = "TopicConfigurationSource" -> StringToTopicConfigurationSource(s)

EnumToString(f, e) ==
    CASE f = "CloudProvider" -> CloudProviderToString(e)
      [] f = "ClusterType" -> ClusterTypeToString(e)
      [] f = "ConnectionType" -> ConnectionTypeToString(e)
      [] f = "UserMechanism" -> UserMechanismToString(e)
      [] f = "ACLResourceType" -> ACLResourceTypeToString(e)
      [] f = "ACLResourcePatternType" -> ACLResourcePatternTypeToString(e)
      [] f = "ACLOperation" -> ACLOperationToString(e)
      [] f = "ACLPermissionType" -> ACLPermissionTypeToString(e)
      [] f = "TopicConfigurationSource" -> TopicConfigurationSourceToString(e)

\* the enum values that XToString has a case for
NamedValues(f) ==
    CASE f = "CloudProvider" -> {"CLOUD_PROVIDER_AWS", "CLOUD_PROVIDER_GCP"}
      [] f = "ClusterType" -> {"TYPE_DEDICATED", "TYPE_BYOC"}
      [] f = "ConnectionType" -> {"Cluster_CONNECTION_TYPE_PUBLIC",
             "Cluster_CONNECTION_TYPE_PRIVATE"}
      [] f = "UserMechanism" -> {"SASLMechanism_SASL_MECHANISM_SCRAM_SHA_256",
             "SASLMechanism_SASL_MECHANISM_SCRAM_SHA_512"}
      [] f = "ACLResourceType" -> {"ACL_RESOURCE_TYPE_UNSPECIFIED",
             "ACL_RESOURCE_TYPE_ANY", "ACL_RESOURCE_TYPE_TOPIC",
             "ACL_RESOURCE_TYPE_GROUP", "ACL_RESOURCE_TYPE_CLUSTER",
             "ACL_RESOURCE_TYPE_TRANSACTIONAL_ID", "ACL_RESOURCE_TYPE_DELEGATION_TOKEN",
             "ACL_RESOURCE_TYPE_USER"}
      [] f = "ACLResourcePatternType" -> {"ACL_RESOURCE_PATTERN_TYPE_UNSPECIFIED",
             "ACL_RESOURCE_PATTERN_TYPE_ANY", "ACL_RESOURCE_PATTERN_TYPE_MATCH",
             "ACL_RESOURCE_PATTERN_TYPE_LITERAL", "ACL_RESOURCE_PATTERN_TYPE_PREFIXED"}
      [] f = "ACLOperation" -> {"ACL_OPERATION_UNSPECIFIED", "ACL_OPERATION_ANY",
             "ACL_OPERATION_ALL", "ACL_OPERATION_READ", "ACL_OPERATION_WRITE",
             "ACL_OPERATION_CREATE", "ACL_OPERATION_DELETE", "ACL_OPERATION_ALTER",
             "ACL_OPERATION_DESCRIBE", "ACL_OPERATION_CLUSTER_ACTION",
             "ACL_OPERATION_DESCRIBE_CONFIGS", "ACL_OPERATION_ALTER_CONFIGS",
             "ACL_OPERATION_IDEMPOTENT_WRITE", "ACL_OPERATION_CREATE_TOKENS",
             "ACL_OPERATION_DESCRIBE_TOKENS"}
      [] f = "ACLPermissionType" -> {"ACL_PERMISSION_TYPE_UNSPECIFIED",
             "ACL_PERMISSION_TYPE_ANY", "ACL_PERMISSION_TYPE_DENY",
             "ACL_PERMISSION_TYPE_ALLOW"}
      [] f = "TopicConfigurationSource" -> {"Topic_Configuration_SOURCE_UNSPECIFIED",
             "Topic_Configuration_SOURCE_DYNAMIC_TOPIC_CONFIG",
             "Topic_Configuration_SOURCE_DYNAMIC_BROKER_CONFIG",
             "Topic_Configuration_SOURCE_DYNAMIC_DEFAULT_BROKER_CONFIG",
             "Topic_Configuration_SOURCE_STATIC_BROKER_CONFIG",
             "Topic_Configuration_SOURCE_DEFAULT_CONFIG",
             "Topic_Configuration_SOURCE_DYNAMIC_BROKER_LOGGER_CONFIG"}

\* the UNSPECIFIED value of a family
UnspecifiedValue(f) ==
    CASE f = "CloudProvider" -> "CLOUD_PROVIDER_UNSPECIFIED"
      [] f = "ClusterType" -> "TYPE_UNSPECIFIED"
      [] f = "ConnectionType" -> "Cluster_CONNECTION_TYPE_UNSPECIFIED"
      [] f = "UserMechanism" -> "SASLMechanism_SASL_MECHANISM_UNSPECIFIED"
      [] f = "ACLResourceType" -> "ACL_RESOURCE_TYPE_UNSPECIFIED"
      [] f = "ACLResourcePatternType" -> "ACL_RESOURCE_PATTERN_TYPE_UNSPECIFIED"
      [] f = "ACLOperation" -> "ACL_OPERATION_UNSPECIFIED"
      [] f = "ACLPermissionType" -> "ACL_PERMISSION_TYPE_UNSPECIFIED"
      [] f = "TopicConfigurationSource" -> "Topic_Configuration_SOURCE_UNSPECIFIED"

\* an enum value that is none of the values of its family
Unrecognised == "99"

\* the strings handed to StringToX: the strings of the conversions as they
\* are, in lower case, in upper case and capitalised, and two that are none
StrBogus == <<"b", "o", "g", "u", "s">>
Capitalised(s) == IF s = <<>> THEN s ELSE <<UpperChar(Head(s))>> \o ToLower(Tail(s))
EnumStrings(f) ==
    LET base == {EnumToString(f, e) : e \in NamedValues(f) \cup {Unrecognised}}
    IN  base \cup {ToLower(s) : s \in base} \cup {ToUpper(s) : s \in base}
             \cup {Capitalised(s) : s \in base} \cup {StrBogus, <<>>}

\* XToString followed by StringToX
EnumRoundTripOf(f, e) ==
    [str |-> EnumToString(f, e), back |-> StringToEnum(f, EnumToString(f, e))]

\* ------------------------------------------------------------------------
\* Topic configurations (part_003:717-784)
\* ------------------------------------------------------------------------

\* a nil pointer in a slice of pointers
NilPtr == [nil |-> TRUE]

\* make([]*T, n): n nil pointers
Make(n) == [i \in 1..n |-> NilPtr]

ConfigSynonymsToSlice(synonyms) ==
    Make(Len(synonyms))
        \o [i \in DOMAIN synonyms |->
               [nil |-> FALSE,
                Name |-> StringValue(synonyms[i].Name),
                Value |-> StringValue(synonyms[i].Value),
                Source |-> StringValue(TopicConfigurationSourceToString(synonyms[i].Source))]]

TopicConfigurationToSlice(c) ==
    Make(Len(c))
        \o [i \in DOMAIN c |->
               [nil |-> FALSE,
                Name |-> StringValue(c[i].Name),
                Type |-> StringValue(c[i].Type),
                Value |-> StringValue(c[i].Value),
                Source |-> StringValue(TopicConfigurationSourceToString(c[i].Source)),
                IsReadOnly |-> BoolValue(c[i].IsReadOnly),
                IsSensitive |-> BoolValue(c[i].IsSensitive),
                ConfigSynonyms |-> ConfigSynonymsToSlice(c[i].ConfigSynonyms),
                Documentation |-> StringValue(c[i].Documentation)]]

\* the first element of a slice whose source does not convert, 0 if none
FirstBadSource(s) ==
    LET bad == {i \in DOMAIN s :
                   StringToTopicConfigurationSource(ValueString(s[i].Source)).err # NilErr}
    IN  IF bad = {} THEN 0 ELSE CHOOSE i \in bad : \A j \in bad : i <= j

SliceToConfigSynonyms(synonyms) ==
    LET b == FirstBadSource(synonyms) IN
    IF b # 0
    THEN [val |-> <<>>,
          err |-> StringToTopicConfigurationSource(ValueString(synonyms[b].Source)).err]
    ELSE [val |->
              Make(Len(synonyms))
                  \o [i \in DOMAIN synonyms |->
                         [nil |-> FALSE,
                          Name |-> ValueString(synonyms[i].Name),
                          Value |-> ValueString(synonyms[i].Value),
                          Source |-> StringToTopicConfigurationSource(
                                         ValueString(synonyms[i].Source)).val]],
          err |-> NilErr]

\* the first element of a slice whose source, or a source of whose synonyms,
\* does not convert, 0 if none
FirstBadConfiguration(c) ==
    LET bad == {i \in DOMAIN c :
                   \/ StringToTopicConfigurationSource(ValueString(c[i].Source)).err # NilErr
                   \/ SliceToConfigSynonyms(c[i].ConfigSynonyms).err # NilErr}
    IN  IF bad = {} THEN 0 ELSE CHOOSE i \in bad : \A j \in bad : i <= j

SliceToTopicConfiguration(c) ==
    LET b == FirstBadConfiguration(c) IN
    IF b # 0
    THEN [val |-> <<>>,
          err |-> IF StringToTopicConfigurationSource(ValueString(c[b].Source)).err # NilErr
                  THEN StringToTopicConfigurationSource(ValueString(c[b].Source)).err
                  ELSE SliceToConfigSynonyms(c[b].ConfigSynonyms).err]
    ELSE [val |->
              Make(Len(c))
                  \o [i \in DOMAIN c |->
                         [nil |-> FALSE,
                          Name |-> ValueString(c[i].Name),
                          Type |-> ValueString(c[i].Type),
                          Value |-> ValueString(c[i].Value),
                          Source |-> StringToTopicConfigurationSource(
                                         ValueString(c[i].Source)).val,
                          IsReadOnly |-> ValueBool(c[i].IsReadOnly),
                          IsSensitive |-> ValueBool(c[i].IsSensitive),
                          ConfigSynonyms |-> SliceToConfigSynonyms(c[i].ConfigSynonyms).val]],
          err |-> NilErr]

\* ------------------------------------------------------------------------
\* Provider.Configure (part_002:66-111)
\* ------------------------------------------------------------------------

\* r.version
Version == "dev"

\* utils.ResourceData and utils.DatasourceData; set is FALSE for the zero
\* value of a response that Configure left alone
NoData == [set |-> FALSE, ClientID |-> <<>>, ClientSecret |-> <<>>, Version |-> ""]
Data(id, sec) == [set |-> TRUE, ClientID |-> id, ClientSecret |-> sec, Version |-> Version]

\* one of the two switch statements of Configure: the value, and whether
\* AddError was called
Resolve(cfgVal, envVal) ==
    CASE cfgVal = <<>> /\ envVal # <<>> -> [value |-> envVal, failed |-> FALSE]
      [] cfgVal # <<>> /\ envVal = <<>> -> [value |-> cfgVal, failed |-> FALSE]
      [] cfgVal # <<>> /\ envVal # <<>> -> [value |-> cfgVal, failed |-> FALSE]
      [] OTHER -> [value |-> <<>>, failed |-> TRUE]

\* Configure on the configuration conf, with CLIENT_ID = envID and
\* CLIENT_SECRET = envSec in the environment; getFailed: request.Config.Get
\* reported an error
Configure(conf, envID, envSec, getFailed) ==
    IF getFailed
    THEN [Diagnostics |-> <<"config">>, ResourceData |-> NoData, DataSourceData |-> NoData]
    ELSE LET id == Resolve(ValueString(conf.ClientID), envID)
             sec == Resolve(ValueString(conf.ClientSecret), envSec)
         IN  [Diagnostics |->
                  (IF id.failed THEN <<"no client id">> ELSE <<>>)
                      \o (IF sec.failed THEN <<"no client secret">> ELSE <<>>),
              ResourceData |-> Data(id.value, sec.value),
              DataSourceData |->
                  Data(ValueString(conf.ClientID), ValueString(conf.ClientSecret))]

\* ------------------------------------------------------------------------
\* Inputs of the conversions of utils and of Configure
\* ------------------------------------------------------------------------

Msg404 == <<"c", "o", "d", "e", " ">> \o Str404
MsgCamelNotFound == <<"r", "p", "c", " ">> \o StrNotFoundCamel
MsgUpperNotFound == <<"N", "O", "T", " ", "F", "O", "U", "N", "D">>
MsgNotfound == <<"n", "o", "t", "f", "o", "u", "n", "d">>
Msg40 == <<"4", "0", " ", "4">>

\* the messages IsNotFound is applied to
ErrorMsgs ==
    {MsgBoom, MsgNotFound, MsgTitleNotFound, MsgCanceled, Msg404, MsgCamelNotFound,
     MsgUpperNotFound, MsgNotfound, Msg40, StrNotFoundLower, StrNotFoundCamel, Str404, <<>>}

\* the sequences over S of length n at most
SeqsUpTo(S, n) == UNION {[1..k -> S] : k \in 0..n}

SourceDefault == "Topic_Configuration_SOURCE_DEFAULT_CONFIG"

\* *dataplanev1alpha1.Topic_Configuration_ConfigSynonym and
\* *dataplanev1alpha1.Topic_Configuration
WireSynonym(src) == [Name |-> StrC1, Value |-> Str123, Source |-> src]
WireConfiguration(src, syn) ==
    [Name |-> StrC1, Type |-> StrC2, Value |-> Str123, Source |-> src,
     IsReadOnly |-> FALSE, IsSensitive |-> TRUE, ConfigSynonyms |-> syn,
     Documentation |-> StrCert]

WireSynonyms == SeqsUpTo({WireSynonym(src) : src \in {SourceDefault, Unrecognised}}, MaxSlice)
WireConfigurations ==
    SeqsUpTo({WireConfiguration(src, syn) :
                 src \in {SourceDefault, Unrecognised},
                 syn \in {<<>>, <<WireSynonym(SourceDefault)>>}}, MaxSlice)

\* *models.TopicConfigSynonym and *models.TopicConfiguration
ModelSynonym(src) ==
    [nil |-> FALSE, Name |-> StringValue(StrC1), Value |-> StringValue(Str123),
     Source |-> StringValue(src)]
ModelConfiguration(src, syn) ==
    [nil |-> FALSE, Name |-> StringValue(StrC1), Type |-> StringValue(StrC2),
     Value |-> StringValue(Str123), Source |-> StringValue(src),
     IsReadOnly |-> BoolValue(FALSE), IsSensitive |-> BoolValue(TRUE),
     ConfigSynonyms |-> syn, Documentation |-> StringValue(StrCert)]

ModelSynonyms == SeqsUpTo({ModelSynonym(src) : src \in {StrDefaultConfig, StrBogus}}, MaxSlice)
ModelConfigurations ==
    SeqsUpTo({ModelConfiguration(src, syn) :
                 src \in {StrDefaultConfig, StrBogus},
                 syn \in {<<>>, <<ModelSynonym(StrDefaultConfig)>>}}, MaxSlice)

StrSecret == <<"s", "3">>
StrEnvId == <<"e", "i", "d">>
StrEnvSecret == <<"e", "s", "3">>

\* models.Redpanda and the environment of Configure
Configurations ==
    [conf : [ClientID : {NullStr, StringValue(<<>>), StringValue(StrId1)},
             ClientSecret : {NullStr, StringValue(StrSecret)}],
     envID : {<<>>, StrEnvId},
     envSec : {<<>>, StrEnvSecret},
     getFailed : BOOLEAN]

\* the inputs, by the function they are for
UtilInputs ==
    {[kind |-> "error", v |-> Err(m)] : m \in ErrorMsgs}
        \cup {[kind |-> "configure", v |-> c] : c \in Configurations}
        \cup UNION {{[kind |-> "enum", family |-> f, v |-> e] :
                        e \in NamedValues(f) \cup {UnspecifiedValue(f), Unrecognised}} :
                    f \in EnumFamilies}
        \cup UNION {{[kind |-> "string", family |-> f, v |-> s] : s \in EnumStrings(f)} :
                    f \in EnumFamilies}
        \cup {[kind |-> "wireSynonyms", v |-> s] : s \in WireSynonyms}
        \cup {[kind |-> "wireConfigurations", v |-> s] : s \in WireConfigurations}
        \cup {[kind |-> "modelSynonyms", v |-> s] : s \in ModelSynonyms}
        \cup {[kind |-> "modelConfigurations", v |-> s] : s \in ModelConfigurations}

\* no conversion is being checked
ClusterIdle ==
    /\ fn = "none"
    /\ cfg = BaseModel
    /\ cluster = BaseCluster
    /\ out = 0

Init ==
    /\ handler \in {"AreWeDoneYet", "Create", "Read", "Update", "Delete"}
    /\ IF handler = "AreWeDoneYet"
       THEN /\ pc = "await"
            /\ op \in Ops
            /\ timeout \in (-1)..MaxTimeout
            /\ plan = EmptyNetwork
            /\ tfState = NoState
       ELSE /\ pc = "start"
            /\ op = NoOp
            /\ timeout = 0
            /\ IF handler = "Create"
               THEN plan \in Plans /\ tfState = NoState
               ELSE /\ plan \in States
                    /\ IF handler = "Update"
                       THEN \E st \in States : tfState = StateOf(st)
                       ELSE tfState = StateOf(plan)
    /\ metadata = NoMetadata
    /\ o = NoOp
    /\ fetchErr = NilErr
    /\ netErr = NilErr
    /\ nw = NoNetwork
    /\ now = 0
    /\ startTime = 0
    /\ ctxDone = FALSE
    /\ trace = <<>>
    /\ ret = Pending
    /\ netCalls = <<>>
    /\ diags = <<>>
    /\ ClusterIdle

Next ==
    \/ AwaitEntry
    \/ Poll
    \/ Sleep
    \/ Cancel
    \/ NetworkCreate
    \/ NetworkCreateFinish
    \/ NetworkDelete
    \/ NetworkDeleteFinish
    \/ NetworkRead
    \/ NetworkUpdate

Spec == Init /\ [][Next]_vars

\* AreWeDoneYet alone, every call it makes returning: a GetOperation and a
\* time.Sleep that are pending are completed
InitAwait == Init /\ handler = "AreWeDoneYet"

NextAwait ==
    \/ AwaitEntry
    \/ Poll
    \/ Sleep
    \/ Cancel

SpecAwait == InitAwait /\ [][NextAwait]_vars /\ WF_vars(AwaitEntry \/ Poll \/ Sleep)

\* ------------------------------------------------------------------------
\* Properties of AreWeDoneYet and of the Network handlers
\* ------------------------------------------------------------------------

\* terminal states of an operation
Terminal(x) == x.state \in {"STATE_COMPLETED", "STATE_FAILED"}

\* AreWeDoneYet has been entered
AwaitEntered == ret.done \/ pc \in {"fetch", "sleep"}

\* the latest call of AreWeDoneYet is a GetOperation
LastIsFetch == trace # <<>> /\ trace[Len(trace)].e = "GetOperation"

NumSleeps == Cardinality(Sleeps(trace))
NumFetches == Cardinality(Fetches(trace))

\* C1: a fetch of the loop that returns a terminal operation whose error
\* message IsNotFound makes AreWeDoneYet return nil.
C1_NotFoundIsSuccess ==
    (Terminal(o) /\ o.error # NilErr /\ IsNotFound(o.error))
        => (ret.done /\ ret.err = NilErr)

\* C2: a fetch of the loop that returns a terminal operation whose error
\* message is not IsNotFound makes AreWeDoneYet return an error that carries
\* that message, and the loop ends.
C2_OtherErrorIsFailure ==
    (Terminal(o) /\ o.error # NilErr /\ ~IsNotFound(o.error))
        => /\ ret.done
           /\ ret.err # NilErr
           /\ Contains(ret.err.msg, o.error.msg)
           /\ LastIsFetch

\* C3: COMPLETED without an error payload is success at once: as the
\* operation handed in, without any GetOperation call; as the answer of a
\* fetch, without any call after that fetch.
C3_CompletedIsSuccess ==
    /\ (AwaitEntered /\ op.state = "STATE_COMPLETED" /\ op.error = NilErr)
           => (ret = Returned(NilErr) /\ trace = <<>>)
    /\ (o.state = "STATE_COMPLETED" /\ o.error = NilErr)
           => (ret = Returned(NilErr) /\ LastIsFetch)

C3_Witness ==
    /\ o.state = "STATE_COMPLETED"
    /\ o.error = NilErr
    /\ ret = Returned(NilErr)
    /\ NumFetches >= 2

\* C4: a terminal operation handed in with an error payload makes
\* AreWeDoneYet return "operation failed: <message>" without any
\* GetOperation call, whatever the message.
C4_InitialErrorIsFailure ==
    (AwaitEntered /\ Terminal(op) /\ op.error # NilErr)
        => (ret = Returned(OperationFailed(op.error.msg)) /\ trace = <<>>)

C4_Witness ==
    /\ ret.done
    /\ Terminal(op)
    /\ op.error # NilErr
    /\ IsNotFound(op.error)
    /\ trace = <<>>

\* C5 as stated: the timeout error comes when the elapsed time exceeds the
\* timeout, and with a timeout of one polling interval it comes after exactly
\* one sleep.
C5_TimeoutAfterOneSleep ==
    (ret.done /\ ret.err = TimeoutReached)
        => /\ now - startTime > timeout
           /\ timeout = SleepInterval => NumSleeps = 1

\* C5 amended: AreWeDoneYet returns the timeout error at the first fetch
\* that returns a non-terminal operation more than timeout after the wait
\* began, and sleeps only while that time is at most timeout; with a timeout
\* of one polling interval that is after at most two sleeps.
C5_Timeout ==
    /\ (ret.done /\ ret.err = TimeoutReached)
           => /\ now - startTime > timeout
              /\ LastIsFetch
              /\ timeout >= 0 => (NumSleeps - 1) * SleepInterval <= timeout
              /\ timeout = SleepInterval => NumSleeps <= 2
    /\ pc = "sleep" => now - startTime <= timeout

C5_Witness ==
    /\ ret.done
    /\ ret.err = TimeoutReached
    /\ timeout = SleepInterval
    /\ NumSleeps = 2

\* C6: once the context is cancelled AreWeDoneYet makes no GetOperation
\* call, and it returns a cancellation error, which is not the timeout error.
C6_CancelStopsPolling ==
    /\ \A i \in Fetches(trace) : ~trace[i].cancelled
    /\ (ret.done /\ \E i \in DOMAIN trace : trace[i].cancelled)
           => ret.err = Err(MsgCanceled)

\* C7: the timeout error is returned only when the latest fetch returned a
\* non-terminal operation; a terminal operation is never reported as timed
\* out, even when it was fetched after the deadline.
C7_TimeoutMeansNotFinished ==
    /\ (ret.done /\ ret.err = TimeoutReached)
           => (LastIsFetch /\ fetchErr = NilErr /\ o \in Ops /\ ~Terminal(o))
    /\ (LastIsFetch /\ Terminal(o)) => (ret.done /\ ret.err # TimeoutReached)

C7_Witness ==
    /\ LastIsFetch
    /\ Terminal(o)
    /\ now - startTime > timeout
    /\ ret.done
    /\ ret.err # TimeoutReached

\* C8: an error of GetOperation is returned as it is and no call follows it;
\* an error of CreateNetwork or DeleteNetwork is reported as an error, the
\* call is not made again and AreWeDoneYet is not entered.
C8_ClientErrorsPropagate ==
    /\ fetchErr # NilErr => (ret = Returned(fetchErr) /\ LastIsFetch)
    /\ (handler \in {"Create", "Delete"} /\ netErr # NilErr)
           => /\ pc = "done"
              /\ Len(netCalls) = 1
              /\ Len(diags) = 1
              /\ diags[1].detail = netErr.msg
              /\ ~AwaitEntered
              /\ trace = <<>>

C8_Witness ==
    /\ fetchErr # NilErr
    /\ ret = Returned(fetchErr)
    /\ NumFetches >= 2

\* the calls of AreWeDoneYet so far: GetOperation for the identifier of the
\* operation handed in, and sleeps of one interval, in alternation
TraceShape ==
    \A i \in DOMAIN trace :
        IF i % 2 = 1
        THEN trace[i].e = "GetOperation" /\ trace[i].id = op.id
        ELSE trace[i].e = "Sleep" /\ trace[i].d = SleepInterval

\* a step of AreWeDoneYet makes one call at most, none of them on the
\* NetworkServiceClient, and leaves the operation handed in as it is
AwaitFrame ==
    pc \in {"await", "fetch", "sleep"}
        => (op' = op /\ netCalls' = netCalls /\ Len(trace') <= Len(trace) + 1)

\* C9: each iteration makes one GetOperation call, for the identifier of the
\* operation handed in; two fetches are one sleep of the fixed interval
\* apart; AreWeDoneYet makes no NetworkServiceClient call and leaves the
\* operation handed in as it is.
C9_PollFrame == []TraceShape /\ [][AwaitFrame]_vars

C9_Witness ==
    /\ NumFetches >= 3
    /\ NumSleeps >= 2
    /\ handler = "Create"

\* ------------------------------------------------------------------------
\* The conversions of the cluster resource, applied to cfg and cluster
\* ------------------------------------------------------------------------

\* no entry point of the Network resource is running
PollerIdle ==
    /\ handler = "none"
    /\ pc = "idle"
    /\ plan = EmptyNetwork
    /\ op = NoOp
    /\ metadata = NoMetadata
    /\ o = NoOp
    /\ fetchErr = NilErr
    /\ netErr = NilErr
    /\ nw = NoNetwork
    /\ timeout = 0
    /\ now = 0
    /\ startTime = 0
    /\ ctxDone = FALSE
    /\ trace = <<>>
    /\ ret = Pending
    /\ netCalls = <<>>
    /\ diags = <<>>
    /\ tfState = NoState

InitCluster ==
    /\ PollerIdle
    /\ fn = "none"
    /\ cfg \in Models
    /\ cluster \in Clusters
    /\ out = 0

GenerateClusterRequest ==
    /\ fn = "none"
    /\ fn' = "generateClusterRequest"
    /\ out' = generateClusterRequest(cfg)
    /\ UNCHANGED <<cfg, cluster>>
    /\ UNCHANGED pollerVars

GenerateClusterUpdate ==
    /\ fn = "none"
    /\ fn' = "generateClusterUpdate"
    /\ out' = generateClusterUpdate(cfg)
    /\ UNCHANGED <<cfg, cluster>>
    /\ UNCHANGED pollerVars

GenerateModel ==
    /\ fn = "none"
    /\ fn' = "generateModel"
    /\ out' = generateModel(cluster)
    /\ UNCHANGED <<cfg, cluster>>
    /\ UNCHANGED pollerVars

\* the models.Cluster in the Terraform state: what generateModel made of the
\* cluster that was read last
StateModel == generateModel(cluster)

GenerateUpdateRequest ==
    /\ fn = "none"
    /\ fn' = "generateUpdateRequest"
    /\ out' = generateUpdateRequest(cfg, StateModel)
    /\ UNCHANGED <<cfg, cluster>>
    /\ UNCHANGED pollerVars

\* a models.Cluster sent as an update and read back from a backend that
\* stored every field of it
Normalize(m) == generateModel(generateClusterUpdate(m))

RoundTrip ==
    /\ fn = "none"
    /\ fn' = "roundTrip"
    /\ out' = Normalize(cfg)
    /\ UNCHANGED <<cfg, cluster>>
    /\ UNCHANGED pollerVars

NextCluster ==
    \/ GenerateClusterRequest
    \/ GenerateClusterUpdate
    \/ GenerateModel
    \/ GenerateUpdateRequest
    \/ RoundTrip

SpecCluster == InitCluster /\ [][NextCluster]_vars

\* ------------------------------------------------------------------------
\* The conversions of utils and Provider.Configure, applied to cfg
\* ------------------------------------------------------------------------

InitUtils ==
    /\ PollerIdle
    /\ fn = "none"
    /\ cfg \in UtilInputs
    /\ cluster = BaseCluster
    /\ out = 0

IsNotFoundCall ==
    /\ fn = "none"
    /\ cfg.kind = "error"
    /\ fn' = "IsNotFound"
    /\ out' = IsNotFound(cfg.v)
    /\ UNCHANGED <<cfg, cluster>>
    /\ UNCHANGED pollerVars

ConfigureCall ==
    /\ fn = "none"
    /\ cfg.kind = "configure"
    /\ fn' = "Configure"
    /\ out' = Configure(cfg.v.conf, cfg.v.envID, cfg.v.envSec, cfg.v.getFailed)
    /\ UNCHANGED <<cfg, cluster>>
    /\ UNCHANGED pollerVars

EnumRoundTrip ==
    /\ fn = "none"
    /\ cfg.kind = "enum"
    /\ fn' = "EnumRoundTrip"
    /\ out' = EnumRoundTripOf(cfg.family, cfg.v)
    /\ UNCHANGED <<cfg, cluster>>
    /\ UNCHANGED pollerVars

StringToEnumCall ==
    /\ fn = "none"
    /\ cfg.kind = "string"
    /\ fn' = "StringToEnum"
    /\ out' = StringToEnum(cfg.family, cfg.v)
    /\ UNCHANGED <<cfg, cluster>>
    /\ UNCHANGED pollerVars

ConfigSynonymsToSliceCall ==
    /\ fn = "none"
    /\ cfg.kind = "wireSynonyms"
    /\ fn' = "ConfigSynonymsToSlice"
    /\ out' = ConfigSynonymsToSlice(cfg.v)
    /\ UNCHANGED <<cfg, cluster>>
    /\ UNCHANGED pollerVars

TopicConfigurationToSliceCall ==
    /\ fn = "none"
    /\ cfg.kind = "wireConfigurations"
    /\ fn' = "TopicConfigurationToSlice"
    /\ out' = TopicConfigurationToSlice(cfg.v)
    /\ UNCHANGED <<cfg, cluster>>
    /\ UNCHANGED pollerVars

SliceToConfigSynonymsCall ==
    /\ fn = "none"
    /\ cfg.kind = "modelSynonyms"
    /\ fn' = "SliceToConfigSynonyms"
    /\ out' = SliceToConfigSynonyms(cfg.v)
    /\ UNCHANGED <<cfg, cluster>>
    /\ UNCHANGED pollerVars

SliceToTopicConfigurationCall ==
    /\ fn = "none"
    /\ cfg.kind = "modelConfigurations"
    /\ fn' = "SliceToTopicConfiguration"
    /\ out' = SliceToTopicConfiguration(cfg.v)
    /\ UNCHANGED <<cfg, cluster>>
    /\ UNCHANGED pollerVars

NextUtils ==
    \/ IsNotFoundCall
    \/ ConfigureCall
    \/ EnumRoundTrip
    \/ StringToEnumCall
    \/ ConfigSynonymsToSliceCall
    \/ TopicConfigurationToSliceCall
    \/ SliceToConfigSynonymsCall
    \/ SliceToTopicConfigurationCall

SpecUtils == InitUtils /\ [][NextUtils]_vars

\* a private-link block that is present with every leaf at its zero value
DisabledLinkModel == LinkModel(BoolValue(FALSE), BoolValue(FALSE), ListValue(<<>>))
DisabledGcpModel == GcpModel(BoolValue(FALSE), BoolValue(FALSE), ListValue(<<>>))
DisabledLinkSpec == LinkSpec(FALSE, FALSE, <<>>)
DisabledGcpSpec == GcpSpec(FALSE, FALSE, <<>>)

\* cfg and cluster with the private-link blocks that are present and
\* disabled taken out
WithoutDisabledModel(m) ==
    [m EXCEPT
        !.AwsPrivateLink = IF @ = DisabledLinkModel THEN NilLinkModel ELSE @,
        !.AzurePrivateLink = IF @ = DisabledLinkModel THEN NilLinkModel ELSE @,
        !.GcpPrivateServiceConnect = IF @ = DisabledGcpModel THEN NilGcpModel ELSE @]

WithoutDisabledCluster(c) ==
    [c EXCEPT
        !.AwsPrivateLink = IF @ = DisabledLinkSpec THEN NilLinkSpec ELSE @,
        !.AzurePrivateLink = IF @ = DisabledLinkSpec THEN NilLinkSpec ELSE @,
        !.GcpPrivateServiceConnect = IF @ = DisabledGcpSpec THEN NilGcpSpec ELSE @]

\* C10: a record whose private-link block is present with enabled=false,
\* connect_console=false and an empty list converts to the same result as
\* the record without the block, under generateClusterRequest,
\* generateClusterUpdate and generateModel.
C10_DisabledIsAbsent ==
    /\ fn = "generateClusterRequest"
          => out = generateClusterRequest(WithoutDisabledModel(cfg))
    /\ fn = "generateClusterUpdate"
          => out = generateClusterUpdate(WithoutDisabledModel(cfg))
    /\ fn = "generateModel"
          => out = generateModel(WithoutDisabledCluster(cluster))

\* the model of a block says enabled = true
EnabledModel(b) == ~b.nil /\ b.Enabled = BoolValue(TRUE)
EnabledMtlsModel(api) == ~api.nil /\ EnabledModel(api.Mtls)

\* the wire form of a block says enabled = true
EnabledSpec(b) == ~b.nil /\ b.Enabled
EnabledMtlsSpec(api) == ~api.nil /\ EnabledSpec(api.Mtls)

\* every block of the models.Cluster m that says enabled = true is present
\* and enabled in the request or update r
EnabledKeptOnWire(m, r) ==
    /\ EnabledModel(m.AwsPrivateLink) => EnabledSpec(r.AwsPrivateLink)
    /\ EnabledModel(m.AzurePrivateLink) => EnabledSpec(r.AzurePrivateLink)
    /\ EnabledModel(m.GcpPrivateServiceConnect) => EnabledSpec(r.GcpPrivateServiceConnect)
    /\ EnabledMtlsModel(m.KafkaAPI) => EnabledMtlsSpec(r.KafkaApi)
    /\ EnabledMtlsModel(m.HTTPProxy) => EnabledMtlsSpec(r.HttpProxy)
    /\ EnabledMtlsModel(m.SchemaRegistry) => EnabledMtlsSpec(r.SchemaRegistry)

\* every block of the cluster c that says enabled = true is present and
\* enabled in the models.Cluster m
EnabledKeptInModel(c, m) ==
    /\ EnabledSpec(c.AwsPrivateLink) => EnabledModel(m.AwsPrivateLink)
    /\ EnabledSpec(c.AzurePrivateLink) => EnabledModel(m.AzurePrivateLink)
    /\ EnabledSpec(c.GcpPrivateServiceConnect) => EnabledModel(m.GcpPrivateServiceConnect)
    /\ EnabledMtlsSpec(c.KafkaApi) => EnabledMtlsModel(m.KafkaAPI)
    /\ EnabledMtlsSpec(c.HttpProxy) => EnabledMtlsModel(m.HTTPProxy)
    /\ EnabledMtlsSpec(c.SchemaRegistry) => EnabledMtlsModel(m.SchemaRegistry)

\* C11: a nested optional block whose enabled flag is true is never
\* collapsed to absent by generateClusterRequest, generateClusterUpdate,
\* generateModel, toMtlsSpec or toMtlsModel, whatever its other leaves are:
\* the block that comes out is present and says enabled = true.
C11_EnabledIsKept ==
    /\ fn \in {"generateClusterRequest", "generateClusterUpdate"}
          => EnabledKeptOnWire(cfg, out)
    /\ fn = "generateModel" => EnabledKeptInModel(cluster, out)

\* an mTLS block with enabled = true and nothing else set went through
\* generateModel and through generateClusterUpdate
C11_Witness ==
    \/ /\ fn = "generateModel"
       /\ cluster.KafkaApi = ApiSpec(MtlsSpec(TRUE, <<>>, <<>>))
       /\ EnabledMtlsModel(out.KafkaAPI)
    \/ /\ fn = "generateClusterUpdate"
       /\ cfg.AwsPrivateLink = LinkModel(BoolValue(TRUE), BoolNull, ListNull)
       /\ EnabledSpec(out.AwsPrivateLink)

\* C12: in a block that generateModel keeps present, no list leaf is null:
\* allowed_principals, allowed_subscriptions, consumer_accept_list,
\* ca_certificates_pem and principal_mapping_rules are lists, empty when
\* the backend sent none.
C12_ListsNeverNull ==
    fn = "generateModel" =>
        /\ ~out.AwsPrivateLink.nil => ~out.AwsPrivateLink.List.null
        /\ ~out.AzurePrivateLink.nil => ~out.AzurePrivateLink.List.null
        /\ ~out.GcpPrivateServiceConnect.nil
              => ~out.GcpPrivateServiceConnect.ConsumerAcceptList.null
        /\ \A api \in {out.KafkaAPI, out.HTTPProxy, out.SchemaRegistry} :
              (~api.nil /\ ~api.Mtls.nil)
                  => /\ ~api.Mtls.CaCertificatesPem.null
                     /\ ~api.Mtls.PrincipalMappingRules.null

\* the optional blocks of a models.Cluster
Blocks(m) ==
    <<m.AwsPrivateLink, m.AzurePrivateLink, m.GcpPrivateServiceConnect,
      m.KafkaAPI, m.HTTPProxy, m.SchemaRegistry>>

\* C13: a record that went through generateClusterUpdate and back through
\* generateModel keeps every optional block when it goes through the two
\* conversions a second time.
C13_NormalizeIdempotent ==
    fn = "roundTrip" => Blocks(Normalize(out)) = Blocks(out)

\* the ClusterUpdate of the plan and of the state, as generateUpdateRequest
\* compares them
PlanUpdate == generateClusterUpdate(cfg)
StateUpdate == generateClusterUpdate(StateModel)
Differs(p) == FieldOf(PlanUpdate, p) # FieldOf(StateUpdate, p)
Paths == {UpdateFields[i] : i \in DOMAIN UpdateFields}
BlockPaths == Paths \ {"name", "read_replica_cluster_ids"}
Mask == {out.UpdateMask[i] : i \in DOMAIN out.UpdateMask}

C16_BlocksAreReplacedWhole ==
    fn = "generateUpdateRequest" =>
        /\ Mask \subseteq Paths
        /\ \A p \in BlockPaths :
              Differs(p) => /\ p \in Mask
                            /\ FieldOf(out.Cluster, p) = FieldOf(PlanUpdate, p)

\* plan and state hold aws_private_link with a different connect_console
\* only, and the payload holds the three leaves of the plan
C16_Witness ==
    /\ fn = "generateUpdateRequest"
    /\ cluster.AwsPrivateLink = LinkSpec(TRUE, FALSE, <<Str123>>)
    /\ out.UpdateMask = <<"aws_private_link">>
    /\ out.Cluster.AwsPrivateLink = LinkSpec(TRUE, TRUE, <<Str123>>)

\* C17: the payload of generateUpdateRequest holds the id of the plan, and
\* the mask never holds the path of the id.
C17_IdInPayloadOnly ==
    fn = "generateUpdateRequest" =>
        /\ out.Cluster.Id = ValueString(cfg.ID)
        /\ "id" \notin Mask

\* an update with a mask was built, addressed by the id of the plan
C17_Witness ==
    /\ fn = "generateUpdateRequest"
    /\ out.UpdateMask # <<>>
    /\ cfg.ID = StringValue(StrId1)
    /\ out.Cluster.Id = StrId1

\* the plan has no aws_private_link, the cluster read last has one that is
\* enabled, with connect_console and the principal 123
C18_Scenario ==
    /\ fn = "generateUpdateRequest"
    /\ cfg = BaseModel
    /\ cluster = [BaseCluster EXCEPT !.AwsPrivateLink = LinkSpec(TRUE, TRUE, <<Str123>>)]

\* C18 as stated: in the scenario the mask is aws_private_link and the
\* payload holds a present aws_private_link block with enabled = false,
\* connect_console = false and no principal.
C18_PayloadIsDisabledBlock ==
    C18_Scenario =>
        /\ out.UpdateMask = <<"aws_private_link">>
        /\ out.Cluster.AwsPrivateLink = DisabledLinkSpec

\* C18: in the scenario the mask is aws_private_link and the payload holds
\* no aws_private_link block, the form a block that is not in the plan has
\* in a ClusterUpdate.
C18_PayloadIsAbsentBlock ==
    C18_Scenario =>
        /\ out.UpdateMask = <<"aws_private_link">>
        /\ out.Cluster.AwsPrivateLink = NilLinkSpec

C18_Witness ==
    /\ C18_Scenario
    /\ out.UpdateMask = <<"aws_private_link">>
    /\ out.Cluster.AwsPrivateLink.nil

\* Create or Delete of the Network resource is running
InNetworkHandler == handler \in {"Create", "Delete"}

\* the mutating call of the handler returned an operation and no error
Mutated ==
    /\ Len(netCalls) = 1
    /\ netCalls[1].rpc = (IF handler = "Create" THEN "CreateNetwork" ELSE "DeleteNetwork")
    /\ netErr = NilErr

\* the handler is over after a failure of the mutating call, of the decoding
\* of the metadata, or of AreWeDoneYet
HandlerFailed ==
    /\ pc = "done"
    /\ \/ netErr # NilErr
       \/ handler = "Create" /\ Mutated /\ ~metadata.ok
       \/ ret.done /\ ret.err # NilErr

\* polling follows the mutating call, the state follows a poll that
\* succeeded, and a failure is reported and leaves the state alone
StepsInOrder ==
    InNetworkHandler =>
        /\ (pc = "await" \/ AwaitEntered \/ trace # <<>>)
              => (Mutated /\ (handler = "Create" => metadata.ok))
        /\ (handler = "Create" /\ tfState.present)
              => (ret = Returned(NilErr) /\ Mutated /\ diags = <<>>)
        /\ HandlerFailed
              => /\ Len(diags) = 1
                 /\ tfState = (IF handler = "Create" THEN NoState ELSE StateOf(plan))

\* the state is written by Create only, after AreWeDoneYet returned no error
StateWrittenLast ==
    (InNetworkHandler /\ tfState' # tfState)
        => (handler = "Create" /\ pc = "returned" /\ ret = Returned(NilErr) /\ pc' = "done")

\* C19: in Network.Create and Network.Delete polling starts only after the
\* mutating call returned an operation without error, Create writes the
\* state only after the poll returned success, and when the mutating call,
\* the decoding of the metadata or the poll fails an error is reported and
\* no state is written.
C19_MutatePollPersist == []StepsInOrder /\ [][StateWrittenLast]_vars

\* Create called CreateNetwork, polled the operation with GetOperation and
\* then wrote the state
C19_Witness ==
    /\ handler = "Create"
    /\ pc = "done"
    /\ Mutated
    /\ NumFetches >= 1
    /\ tfState.present

\* C20: the state that Network.Create writes after a successful poll comes
\* from a read of the network made after the poll, not from the plan.
C20_StateIsReadBack ==
    (handler = "Create" /\ tfState.present)
        => /\ netCalls[Len(netCalls)].rpc = "GetNetwork"
           /\ Len(netCalls) >= 2

\* C21: Network.Read removes the resource from the state and reports no
\* error when GetNetwork fails with a not-found error, reports an error and
\* leaves the state as it was when GetNetwork fails with another error, and
\* sets the state to the values of the network read when GetNetwork
\* succeeds, and only then.
C21_ReadOutcomes ==
    (handler = "Read" /\ pc = "done") =>
        /\ (netErr # NilErr /\ IsNotFound(netErr))
              => (tfState = NoState /\ diags = <<>>)
        /\ (netErr # NilErr /\ ~IsNotFound(netErr))
              => /\ Len(diags) = 1
                 /\ diags[1].detail = netErr.msg
                 /\ tfState = StateOf(plan)
        /\ netErr = NilErr
              => (~nw.nil /\ tfState = StateOf(ReadState(nw)) /\ diags = <<>>)

\* GetNetwork failed with a not-found error and Read removed the resource
C21_Witness ==
    /\ handler = "Read"
    /\ pc = "done"
    /\ netErr = Err(MsgNotFound)
    /\ tfState = NoState
    /\ diags = <<>>

\* Update has called no client and reported nothing, and every attribute of
\* the schema that a configuration can set forces replacement
UpdateQuiet ==
    /\ handler = "Update" => (netCalls = <<>> /\ diags = <<>>)
    /\ \A a \in DOMAIN ResourceNetworkSchema :
          ResourceNetworkSchema[a].Configurable => ResourceNetworkSchema[a].RequiresReplace

\* no step of Update changes the state
UpdateFrame == handler = "Update" => UNCHANGED <<tfState, netCalls, diags>>

\* C23: Network.Update calls no client, reports no error and leaves the
\* state as it was, whatever the plan and the state are; every configurable
\* attribute of the network forces replacement.
C23_UpdateDoesNothing == []UpdateQuiet /\ [][UpdateFrame]_vars

\* Update ran with a plan that differs from the state, and the state stayed
C23_Witness ==
    /\ handler = "Update"
    /\ pc = "done"
    /\ tfState.present
    /\ tfState.value # plan

\* C24: a terminal operation without error payload makes AreWeDoneYet return
\* nil whatever its state is, STATE_FAILED included, as the operation it is
\* handed and as the answer of a GetOperation of the loop.
C24_NoPayloadIsSuccess ==
    ret.done =>
        /\ (Terminal(op) /\ op.error = NilErr) => (ret.err = NilErr /\ trace = <<>>)
        /\ (LastIsFetch /\ fetchErr = NilErr /\ Terminal(o) /\ o.error = NilErr)
              => ret.err = NilErr

\* a GetOperation of the loop answered a failed operation without error
\* payload, and AreWeDoneYet returned nil
C24_Witness ==
    /\ ret = Returned(NilErr)
    /\ LastIsFetch
    /\ o.state = "STATE_FAILED"
    /\ o.error = NilErr

\* C25: AreWeDoneYet returns nil only right after it saw a terminal
\* operation: the one it was handed, when it made no call, or the answer of
\* its last GetOperation.
C25_SuccessOnlyWhenTerminal ==
    (ret.done /\ ret.err = NilErr) =>
        IF trace = <<>>
        THEN Terminal(op)
        ELSE LastIsFetch /\ fetchErr = NilErr /\ Terminal(o)

\* AreWeDoneYet returned nil after a fetch of an unfinished operation, a
\* sleep and a fetch of a terminal one
C25_Witness ==
    /\ ret = Returned(NilErr)
    /\ NumFetches >= 2
    /\ Terminal(o)
    /\ ~Terminal(op)

\* the number of GetOperation calls is within the bound, and an operation
\* handed over unfinished is fetched before AreWeDoneYet returns
FetchBound ==
    AwaitEntered =>
        /\ NumFetches <= (timeout \div SleepInterval) + 2
        /\ (ret.done /\ ~Terminal(op)) => NumFetches >= 1

\* C26: when every GetOperation call returns, AreWeDoneYet returns whatever
\* the backend answers; it makes at most floor(timeout / SleepInterval) + 2
\* GetOperation calls, and at least one when it is handed an unfinished
\* operation, also with a timeout of zero or less.
C26_Terminates == []FetchBound /\ <>ret.done

\* AreWeDoneYet returned after floor(timeout / SleepInterval) + 2 fetches
C26_Witness ==
    /\ ret.done
    /\ timeout >= 1
    /\ NumFetches = (timeout \div SleepInterval) + 2

\* the kafka_api, http_proxy and schema_registry of a request or an update
ApiBlocks(r) == <<r.KafkaApi, r.HttpProxy, r.SchemaRegistry>>

\* C27: generateClusterRequest and generateClusterUpdate give the same
\* kafka_api, http_proxy and schema_registry for one model: both leave the
\* block out or both emit it with the same mtls, also when the block is
\* present without mtls or with an mtls of null leaves.
C27_CreateAndUpdateAgree ==
    /\ fn = "generateClusterRequest"
          => ApiBlocks(out) = ApiBlocks(generateClusterUpdate(cfg))
    /\ fn = "generateClusterUpdate"
          => ApiBlocks(out) = ApiBlocks(generateClusterRequest(cfg))

\* value and error of two results of StringToX, whatever the message
SameResult(a, b) == a.val = b.val /\ (a.err = NilErr <=> b.err = NilErr)

\* C30: StringToX(XToString(v)) = v for every enum value v that XToString
\* has a case for; StringToX gives the same for a string in any case of its
\* letters; and the string XToString gives for a value it has no case for
\* converts back with an error or to the UNSPECIFIED value.
C30_EnumsRoundTrip ==
    /\ (fn = "EnumRoundTrip" /\ cfg.v \in NamedValues(cfg.family))
          => (out.back.val = cfg.v /\ out.back.err = NilErr)
    /\ (fn = "EnumRoundTrip" /\ cfg.v = Unrecognised)
          => (out.back.err # NilErr \/ out.back.val = UnspecifiedValue(cfg.family))
    /\ fn = "StringToEnum"
          => /\ SameResult(out, StringToEnum(cfg.family, ToLower(cfg.v)))
             /\ SameResult(out, StringToEnum(cfg.family, ToUpper(cfg.v)))

\* "cloud" was made of TYPE_BYOC and converted back to it
C30_Witness ==
    /\ fn = "EnumRoundTrip"
    /\ cfg.family = "ClusterType"
    /\ cfg.v = "TYPE_BYOC"
    /\ out.back.val = "TYPE_BYOC"

\* the slice res has an element for each element of the slice in, at the
\* same place and under the same name, and none of them is nil
ElementWise(in, res, name(_)) ==
    /\ Len(res) = Len(in)
    /\ \A i \in DOMAIN res :
          /\ ~res[i].nil
          /\ i \in DOMAIN in
          /\ res[i].Name = name(in[i])

WireName(v) == StringValue(v.Name)
ModelName(v) == ValueString(v.Name)

\* C29: TopicConfigurationToSlice, ConfigSynonymsToSlice,
\* SliceToTopicConfiguration and SliceToConfigSynonyms return a slice as
\* long as the one they are given, the conversion of the i-th element at
\* place i, without nil entries.
C29_SlicesElementWise ==
    /\ fn \in {"TopicConfigurationToSlice", "ConfigSynonymsToSlice"}
          => ElementWise(cfg.v, out, WireName)
    /\ (fn \in {"SliceToTopicConfiguration", "SliceToConfigSynonyms"} /\ out.err = NilErr)
          => ElementWise(cfg.v, out.val, ModelName)

\* the characters of mark, in their case, stand next to each other in m
HasMark(m, mark) ==
    \E i \in 1..Len(m) : \E j \in i..Len(m) : SubSeq(m, i, j) = mark

\* C22: IsNotFound holds of an error exactly when its message has "not
\* found", "NotFound" or "404" in it, in this case of the letters; it does
\* not hold of "Not Found".
C22_IsNotFoundExact ==
    fn = "IsNotFound" =>
        /\ out <=> \E mark \in {StrNotFoundLower, StrNotFoundCamel, Str404} :
                      HasMark(cfg.v.msg, mark)
        /\ cfg.v.msg = MsgTitleNotFound => ~out

\* IsNotFound held of "rpc NotFound"
C22_Witness ==
    /\ fn = "IsNotFound"
    /\ cfg.v = Err(MsgCamelNotFound)
    /\ out = TRUE

\* the credential Configure is to use
Credential(cfgVal, envVal) == IF cfgVal # <<>> THEN cfgVal ELSE envVal

\* C28: Configure takes each credential from the configuration when it is
\* set there and from the environment otherwise, reports an error exactly
\* when one of them is in neither, and gives resources and data sources the
\* same credentials.
C28_ConfigureResolves ==
    (fn = "Configure" /\ ~cfg.v.getFailed) =>
        LET id == Credential(ValueString(cfg.v.conf.ClientID), cfg.v.envID)
            sec == Credential(ValueString(cfg.v.conf.ClientSecret), cfg.v.envSec)
        IN  /\ out.ResourceData.ClientID = id
            /\ out.ResourceData.ClientSecret = sec
            /\ out.Diagnostics # <<>> <=> (id = <<>> \/ sec = <<>>)
            /\ out.DataSourceData = out.ResourceData

====
